---- MODULE Spec2Model ----
(***************************************************************************)
(* A model of ib-tws-node (src/src/ib-tws-node.js): the line codec         *)
(* (send, the shell 'data' handler, emit_line) at the level of characters, *)
(* and the client object built by createInstanceAsync (schema registry,    *)
(* installed action methods, transport events) at the level of records.    *)
(***************************************************************************)
EXTENDS Integers, Sequences, FiniteSets, TLC

(***************************************************************************)
(* Bounds of the model.                                                    *)
(***************************************************************************)
\* longest argument list the codec specification encodes
MaxArgs == 2
\* the most calls of action methods one client makes
MaxCalls == 2
\* the most chunks one encoded line is fed in
MaxChunks == 2
MaxLine == 3
MaxText == 3
MaxErrors == 1

(***************************************************************************)
(* Strings are sequences of one-character strings.                         *)
(***************************************************************************)
TAB == "\t"
NL == "\n"
SP == " "
QUOTE == "\""
BSLASH == "\\"

\* the regular expression class \s, restricted to the characters of the model
IsSpace(c) == c \in {TAB, NL, SP}

RECURSIVE SplitAcc(_, _, _)
SplitAcc(s, sep, cur) ==
    IF s = <<>> THEN << cur >>
    ELSE IF Head(s) = sep THEN << cur >> \o SplitAcc(Tail(s), sep, <<>>)
    ELSE SplitAcc(Tail(s), sep, Append(cur, Head(s)))

\* String.prototype.split with a one-character separator: "".split(sep) is [""]
Split(s, sep) == SplitAcc(s, sep, <<>>)

RECURSIVE Join(_, _)
\* Array.prototype.join
Join(parts, sep) ==
    IF parts = <<>> THEN <<>>
    ELSE IF Len(parts) = 1 THEN parts[1]
    ELSE parts[1] \o <<sep>> \o Join(Tail(parts), sep)

RECURSIVE TrimLeft(_)
TrimLeft(s) == IF s # <<>> /\ IsSpace(Head(s)) THEN TrimLeft(Tail(s)) ELSE s

RECURSIVE TrimRight(_)
TrimRight(s) ==
    IF s # <<>> /\ IsSpace(s[Len(s)]) THEN TrimRight(SubSeq(s, 1, Len(s) - 1)) ELSE s

Trim(s) == TrimRight(TrimLeft(s))

(***************************************************************************)
(* The names of the model, spelled out as strings.                         *)
(***************************************************************************)
N_help == <<"h", "e", "l", "p">>
N_helpEnd == <<"h", "e", "l", "p", "E", "n", "d">>
N_error == <<"e", "r", "r", "o", "r">>
N_exit == <<"e", "x", "i", "t">>
N_isConnected == <<"i", "s", "C", "o", "n", "n", "e", "c", "t", "e", "d">>
N_sleep == <<"s", "l", "e", "e", "p">>
N_actions == <<"a", "c", "t", "i", "o", "n", "s">>
N_events == <<"e", "v", "e", "n", "t", "s">>
N_Shell == <<"S", "h", "e", "l", "l">>
N_int == <<"i", "n", "t">>
N_ms == <<"m", "s">>
N_two == <<"t", "w", "o">>

(***************************************************************************)
(* JSON values.  Every value is a record of the same shape so that any two *)
(* values can be compared: k is the kind, a the characters of an atom      *)
(* (the digits of a number, the text of a string), e the elements of an    *)
(* array or the property values of an object, n the property names of an   *)
(* object (n[i] names e[i]).  JNull stands for null and for undefined:     *)
(* assertType tells them apart nowhere (value != null).                    *)
(***************************************************************************)
JNull == [k |-> "null", a |-> <<>>, e |-> <<>>, n |-> <<>>]
JNum(digits) == [k |-> "num", a |-> digits, e |-> <<>>, n |-> <<>>]
JStr(chars) == [k |-> "str", a |-> chars, e |-> <<>>, n |-> <<>>]
JBool(b) == [k |-> "bool", a |-> IF b THEN <<"t">> ELSE <<"f">>, e |-> <<>>, n |-> <<>>]
JArr(elems) == [k |-> "arr", a |-> <<>>, e |-> elems, n |-> <<>>]
JObj(names, vals) == [k |-> "obj", a |-> <<>>, e |-> vals, n |-> names]

RECURSIVE Escape(_)
\* the escaping JSON.stringify applies inside a string literal
Escape(s) ==
    IF s = <<>> THEN <<>>
    ELSE (CASE Head(s) = TAB -> <<BSLASH, "t">>
            [] Head(s) = NL -> <<BSLASH, "n">>
            [] Head(s) = QUOTE -> <<BSLASH, QUOTE>>
            [] Head(s) = BSLASH -> <<BSLASH, BSLASH>>
            [] OTHER -> <<Head(s)>>) \o Escape(Tail(s))

RECURSIVE JSONstringify(_)
JSONstringify(v) ==
    CASE v.k = "null" -> <<"n", "u", "l", "l">>
      [] v.k = "num" -> v.a
      [] v.k = "bool" ->
            IF v.a = <<"t">> THEN <<"t", "r", "u", "e">> ELSE <<"f", "a", "l", "s", "e">>
      [] v.k = "str" -> <<QUOTE>> \o Escape(v.a) \o <<QUOTE>>
      [] v.k = "arr" ->
            <<"[">> \o Join([i \in 1..Len(v.e) |-> JSONstringify(v.e[i])], ",") \o <<"]">>
      [] v.k = "obj" ->
            <<"{">> \o Join([i \in 1..Len(v.e) |->
                                <<QUOTE>> \o Escape(v.n[i]) \o <<QUOTE, ":">>
                                    \o JSONstringify(v.e[i])], ",") \o <<"}">>

IsDigit(c) == c \in {"0", "1", "2", "3", "4", "5", "6", "7", "8", "9"}

RECURSIVE DigitRun(_)
\* the longest prefix of s made of digits
DigitRun(s) == IF s = <<>> \/ ~IsDigit(Head(s)) THEN <<>> ELSE <<Head(s)>> \o DigitRun(Tail(s))

\* s without a leading minus sign
Unsigned(s) == IF s # <<>> /\ Head(s) = "-" THEN Tail(s) ELSE s

\* the number literals of the model: -?digits(.digits)?
IsNumberText(s) ==
    LET u == Unsigned(s)
        int == DigitRun(u)
        after == SubSeq(u, Len(int) + 1, Len(u))
    IN  /\ int # <<>>
        /\ \/ after = <<>>
           \/ /\ Len(after) >= 2
              /\ Head(after) = "."
              /\ DigitRun(Tail(after)) = Tail(after)

RECURSIVE AllZero(_)
AllZero(s) == s = <<>> \/ (Head(s) = "0" /\ AllZero(Tail(s)))

\* the fraction digits of a number literal (empty when it has none)
Fraction(s) ==
    LET u == Unsigned(s)
        int == DigitRun(u)
    IN  IF Len(u) > Len(int) + 1 THEN SubSeq(u, Len(int) + 2, Len(u)) ELSE <<>>

\* the shortest literal of the same number when the fraction is zero: 1.0 is 1
Canonical(s) ==
    IF Fraction(s) # <<>> /\ AllZero(Fraction(s))
    THEN SubSeq(s, 1, Len(s) - Len(Fraction(s)) - 1)
    ELSE s

RECURSIVE IsEscaped(_)
\* the inside of a JSON string literal: no bare quote or control character,
\* every backslash followed by a character it can escape
IsEscaped(s) ==
    IF s = <<>> THEN TRUE
    ELSE IF Head(s) = BSLASH
         THEN Len(s) >= 2 /\ s[2] \in {"t", "n", QUOTE, BSLASH} /\ IsEscaped(SubSeq(s, 3, Len(s)))
         ELSE Head(s) \notin {QUOTE, TAB, NL} /\ IsEscaped(Tail(s))

RECURSIVE Unescape(_)
Unescape(s) ==
    IF s = <<>> THEN <<>>
    ELSE IF Head(s) = BSLASH
         THEN (CASE s[2] = "t" -> <<TAB>>
                 [] s[2] = "n" -> <<NL>>
                 [] OTHER -> <<s[2]>>) \o Unescape(SubSeq(s, 3, Len(s)))
         ELSE <<Head(s)>> \o Unescape(Tail(s))

IsStringText(s) ==
    Len(s) >= 2 /\ Head(s) = QUOTE /\ s[Len(s)] = QUOTE /\ IsEscaped(SubSeq(s, 2, Len(s) - 1))

\* the atoms the codec specification sends
JsonAtoms ==
    {JNull, JNum(<<"1">>), JBool(TRUE), JStr(<<>>), JStr(<<"a">>),
     JStr(<<"a", SP, "b">>), JStr(<<"a", TAB, "b">>)}

\* the arrays JSON.parse recognises in the model
JsonArrays == {JArr(<<>>)} \cup {JArr(<<x>>) : x \in JsonAtoms}

\* the object texts of the peer: the empty object
JsonObjects == {JObj(<<>>, <<>>)}

\* JSON.parse(json), or the raw string when it throws (emit_line's try/catch).
\* JSON.parse skips the white space around a value.
JSONparseOrRaw(json) ==
    LET text == Trim(json)
    IN  CASE text = <<"n", "u", "l", "l">> -> JNull
          [] text = <<"t", "r", "u", "e">> -> JBool(TRUE)
          [] text = <<"f", "a", "l", "s", "e">> -> JBool(FALSE)
          [] IsNumberText(text) -> JNum(Canonical(text))
          [] IsStringText(text) -> JStr(Unescape(SubSeq(text, 2, Len(text) - 1)))
          [] \E v \in JsonArrays : JSONstringify(v) = text ->
                CHOOSE v \in JsonArrays : JSONstringify(v) = text
          [] \E v \in JsonObjects : JSONstringify(v) = text ->
                CHOOSE v \in JsonObjects : JSONstringify(v) = text
          [] OTHER -> JStr(json)

(***************************************************************************)
(* send: the line written for a call.                                      *)
(***************************************************************************)
\* [call_name].concat(args.map(JSON.stringify)).concat('\n').join('\t')
SendLine(call_name, args) ==
    Join(<<call_name>> \o [i \in 1..Len(args) |-> JSONstringify(args[i])] \o << <<NL>> >>, TAB)

\* a line as the specification's wire format gives it: the fields joined by
\* single tabs, then the newline
PlainLine(call_name, args) ==
    Join(<<call_name>> \o [i \in 1..Len(args) |-> JSONstringify(args[i])], TAB) \o << NL >>

(***************************************************************************)
(* emit_line.  Its regular expression matches optional leading white      *)
(* space, a longest run of non-space characters (the name), at least one   *)
(* white-space character, and then the rest of the line.                   *)
(***************************************************************************)
RECURSIVE NonSpaceRun(_)
\* the longest prefix of s without white space
NonSpaceRun(s) ==
    IF s = <<>> \/ IsSpace(Head(s)) THEN <<>> ELSE <<Head(s)>> \o NonSpaceRun(Tail(s))

\* the record of the match, or matched = FALSE when the line does not match
MatchRecord(line) ==
    LET afterLead == TrimLeft(line)
        name == NonSpaceRun(afterLead)
        afterName == SubSeq(afterLead, Len(name) + 1, Len(afterLead))
        rest == TrimLeft(afterName)
    IN  IF name # <<>> /\ afterName # <<>>
        THEN [matched |-> TRUE, name |-> name, rest |-> rest]
        ELSE [matched |-> FALSE, name |-> <<>>, rest |-> <<>>]

\* the name and the arguments emit_line hands to emitter.emit
emit_line(line) ==
    LET record == MatchRecord(line)
        fields == Split(record.rest, TAB)
    IN  IF record.matched
        THEN [name |-> record.name,
              args |-> [i \in 1..Len(fields) |-> JSONparseOrRaw(fields[i])]]
        ELSE [name |-> line, args |-> <<>>]

(***************************************************************************)
(* The shell 'data' handler.                                               *)
(***************************************************************************)
\* the template literal `buffer${chunk}` of the handler
BufferTemplate(buf, chunk) == <<"b", "u", "f", "f", "e", "r">> \o chunk

\* lines: (buffer ? `buffer${chunk}` : chunk).split('\n')
HandlerLines(buf, chunk) ==
    Split(IF buf # <<>> THEN BufferTemplate(buf, chunk) ELSE chunk, NL)

\* the handler's effect: the records emitted, in order, and the new carry-over
DataHandler(buf, chunk) ==
    LET lines == HandlerLines(buf, chunk)
    IN  [emitted |-> [i \in 1..(Len(lines) - 1) |-> emit_line(lines[i])],
         buffer |-> lines[Len(lines)]]

(***************************************************************************)
(* The schema registry: the object `schema` of createInstanceAsync, as the *)
(* sequence of its entries in insertion order (the order of Object.keys).  *)
(* An entry's kind tells which literal of the 'help' handler created it,   *)
(* and so which properties it has: an "action" item has param_names and    *)
(* param_types; a "type" item has values, object_properties and            *)
(* object_values; an "actions" or "events" category has values.            *)
(***************************************************************************)
NoItem ==
    [name |-> <<>>, kind |-> "none", values |-> <<>>, object_properties |-> <<>>,
     object_values |-> <<>>, param_names |-> <<>>, param_types |-> <<>>,
     listeners |-> <<>>, requested |-> FALSE, complete |-> FALSE]

\* the literal of a new entry (lines 80-88, 92-99, 124-130, 132-138)
NewItem(name, kind) == [NoItem EXCEPT !.name = name, !.kind = kind]

HasItem(sch, name) == \E i \in 1..Len(sch) : sch[i].name = name

\* schema[name], NoItem standing for undefined
GetItem(sch, name) ==
    IF HasItem(sch, name) THEN sch[CHOOSE i \in 1..Len(sch) : sch[i].name = name] ELSE NoItem

\* schema[name] = item
PutItem(sch, item) ==
    IF HasItem(sch, item.name)
    THEN [i \in 1..Len(sch) |-> IF sch[i].name = item.name THEN item ELSE sch[i]]
    ELSE Append(sch, item)

\* obj[key] = value on a map kept as a sequence of <<key, value>> pairs
SetProperty(map, key, value) ==
    IF \E i \in 1..Len(map) : map[i][1] = key
    THEN [i \in 1..Len(map) |-> IF map[i][1] = key THEN <<key, value>> ELSE map[i]]
    ELSE Append(map, <<key, value>>)

\* name.charAt(0) == '[' ? name.substring(1, name.length-1) : name
ItemName(name) ==
    IF name # <<>> /\ Head(name) = "[" THEN SubSeq(name, 2, Len(name) - 1) ELSE name

IsArrayType(name) == name # <<>> /\ Head(name) = "["

\* an argument of a record as the property key or the string the handlers
\* use it as; an argument that is absent is undefined
Arg(args, i) == IF i <= Len(args) THEN args[i] ELSE JNull

\* a value is truthy (if (type))
Truthy(v) ==
    CASE v.k = "null" -> FALSE
      [] v.k = "str" -> v.a # <<>>
      [] v.k = "num" -> ~AllZero(DigitRun(Unsigned(v.a))) \/ ~AllZero(Fraction(v.a))
      [] v.k = "bool" -> v.a = <<"t">>
      [] OTHER -> TRUE

\* the help handler storing a new action descriptor over the one it found
HelpHandlerOverwrites(sch, args) ==
    LET method_or_type == Arg(args, 1).a
        name == Arg(args, 2).a
        type == Arg(args, 3)
        default_value == Arg(args, 4)
        owner == GetItem(sch, method_or_type)
    IN  IF Truthy(type)
        THEN IF ~HasItem(sch, method_or_type)
             THEN [schema |-> sch, installed |-> <<>>, threw |-> TRUE]
             ELSE LET owner1 ==
                          IF owner.kind = "type"
                          THEN [owner EXCEPT
                                  !.object_properties = SetProperty(@, name, type.a),
                                  !.object_values = SetProperty(@, name, default_value)]
                          ELSE IF owner.kind = "action"
                          THEN [owner EXCEPT !.param_names = Append(@, name),
                                             !.param_types = Append(@, type.a)]
                          ELSE owner
                      sch1 == PutItem(sch, owner1)
                      type_name == ItemName(type.a)
                  IN  [schema |-> IF HasItem(sch1, type_name) THEN sch1
                                  ELSE Append(sch1, NewItem(type_name, "type")),
                       installed |-> <<>>, threw |-> FALSE]
        ELSE IF HasItem(sch, method_or_type) /\ owner.kind = "actions"
        THEN [schema |-> IF HasItem(sch, name) THEN PutItem(sch, NewItem(name, "action"))
                         ELSE Append(sch, NewItem(name, "action")),
              installed |-> name, threw |-> FALSE]
        ELSE IF method_or_type = N_actions
        THEN [schema |-> IF HasItem(sch, name) THEN sch ELSE Append(sch, NewItem(name, "actions")),
              installed |-> <<>>, threw |-> FALSE]
        ELSE IF method_or_type = N_events
        THEN [schema |-> IF HasItem(sch, name) THEN sch ELSE Append(sch, NewItem(name, "events")),
              installed |-> <<>>, threw |-> FALSE]
        ELSE IF HasItem(sch, method_or_type)
        THEN IF owner.kind = "action"
             THEN [schema |-> sch, installed |-> <<>>, threw |-> TRUE]
             ELSE [schema |-> PutItem(sch, [owner EXCEPT !.values = Append(@, Arg(args, 2))]),
                   installed |-> <<>>, threw |-> FALSE]
        ELSE [schema |-> sch, installed |-> <<>>, threw |-> FALSE]

\* the help handler storing an event descriptor for a record of an event category
HelpHandlerRegistersEvents(sch, args) ==
    LET method_or_type == Arg(args, 1).a
        name == Arg(args, 2).a
        type == Arg(args, 3)
        default_value == Arg(args, 4)
        owner == GetItem(sch, method_or_type)
    IN  IF Truthy(type)
        THEN IF ~HasItem(sch, method_or_type)
             THEN [schema |-> sch, installed |-> <<>>, threw |-> TRUE]
             ELSE LET owner1 ==
                          IF owner.kind = "type"
                          THEN [owner EXCEPT
                                  !.object_properties = SetProperty(@, name, type.a),
                                  !.object_values = SetProperty(@, name, default_value)]
                          ELSE IF owner.kind = "action"
                          THEN [owner EXCEPT !.param_names = Append(@, name),
                                             !.param_types = Append(@, type.a)]
                          ELSE owner
                      sch1 == PutItem(sch, owner1)
                      type_name == ItemName(type.a)
                  IN  [schema |-> IF HasItem(sch1, type_name) THEN sch1
                                  ELSE Append(sch1, NewItem(type_name, "type")),
                       installed |-> <<>>, threw |-> FALSE]
        ELSE IF HasItem(sch, method_or_type) /\ owner.kind = "actions"
        THEN [schema |-> IF HasItem(sch, name) THEN sch ELSE Append(sch, NewItem(name, "action")),
              installed |-> name, threw |-> FALSE]
        ELSE IF HasItem(sch, method_or_type) /\ owner.kind = "events"
        THEN [schema |-> IF HasItem(sch, name) THEN sch ELSE Append(sch, NewItem(name, "event")),
              installed |-> <<>>, threw |-> FALSE]
        ELSE IF method_or_type = N_actions
        THEN [schema |-> IF HasItem(sch, name) THEN sch ELSE Append(sch, NewItem(name, "actions")),
              installed |-> <<>>, threw |-> FALSE]
        ELSE IF method_or_type = N_events
        THEN [schema |-> IF HasItem(sch, name) THEN sch ELSE Append(sch, NewItem(name, "events")),
              installed |-> <<>>, threw |-> FALSE]
        ELSE IF HasItem(sch, method_or_type)
        THEN IF owner.kind = "action"
             THEN [schema |-> sch, installed |-> <<>>, threw |-> TRUE]
             ELSE [schema |-> PutItem(sch, [owner EXCEPT !.values = Append(@, Arg(args, 2))]),
                   installed |-> <<>>, threw |-> FALSE]
        ELSE [schema |-> sch, installed |-> <<>>, threw |-> FALSE]

(***************************************************************************)
(* The 'help' handler (lines 72-141).  Its result: the schema afterwards,  *)
(* the name of the action whose method it installed (or <<>>), and whether *)
(* it threw a TypeError (reading a property of undefined).                 *)
(***************************************************************************)
HelpHandler(sch, args) ==
    LET method_or_type == Arg(args, 1).a
        name == Arg(args, 2).a
        type == Arg(args, 3)
        default_value == Arg(args, 4)
        owner == GetItem(sch, method_or_type)
    IN  IF Truthy(type)
        THEN IF ~HasItem(sch, method_or_type)
             THEN [schema |-> sch, installed |-> <<>>, threw |-> TRUE]
             ELSE LET owner1 ==
                          IF owner.kind = "type"
                          THEN [owner EXCEPT
                                  !.object_properties = SetProperty(@, name, type.a),
                                  !.object_values = SetProperty(@, name, default_value)]
                          ELSE IF owner.kind = "action"
                          THEN [owner EXCEPT !.param_names = Append(@, name),
                                             !.param_types = Append(@, type.a)]
                          ELSE owner
                      sch1 == PutItem(sch, owner1)
                      type_name == ItemName(type.a)
                  IN  [schema |-> IF HasItem(sch1, type_name) THEN sch1
                                  ELSE Append(sch1, NewItem(type_name, "type")),
                       installed |-> <<>>, threw |-> FALSE]
        ELSE IF HasItem(sch, method_or_type) /\ owner.kind = "actions"
        THEN [schema |-> IF HasItem(sch, name) THEN sch ELSE Append(sch, NewItem(name, "action")),
              installed |-> name, threw |-> FALSE]
        ELSE IF method_or_type = N_actions
        THEN [schema |-> IF HasItem(sch, name) THEN sch ELSE Append(sch, NewItem(name, "actions")),
              installed |-> <<>>, threw |-> FALSE]
        ELSE IF method_or_type = N_events
        THEN [schema |-> IF HasItem(sch, name) THEN sch ELSE Append(sch, NewItem(name, "events")),
              installed |-> <<>>, threw |-> FALSE]
        ELSE IF HasItem(sch, method_or_type)
        THEN IF owner.kind = "action"
             THEN [schema |-> sch, installed |-> <<>>, threw |-> TRUE]
             ELSE [schema |-> PutItem(sch, [owner EXCEPT !.values = Append(@, Arg(args, 2))]),
                   installed |-> <<>>, threw |-> FALSE]
        ELSE [schema |-> sch, installed |-> <<>>, threw |-> FALSE]

\* the helpEnd handler storing a fresh complete entry in place of the one it found
HelpEndHandlerFresh(sch, args) ==
    LET method_or_type == Arg(args, 1).a
        item == GetItem(sch, method_or_type)
    IN  IF HasItem(sch, method_or_type)
        THEN [schema |-> PutItem(sch, [NewItem(item.name, item.kind) EXCEPT !.complete = TRUE]),
              resolved |-> item.listeners]
        ELSE [schema |-> sch, resolved |-> <<>>]

\* the helpEnd handler calling the listeners without taking them off the list
HelpEndHandlerKeeps(sch, args) ==
    LET method_or_type == Arg(args, 1).a
        item == GetItem(sch, method_or_type)
    IN  IF HasItem(sch, method_or_type)
        THEN [schema |-> PutItem(sch, [item EXCEPT !.complete = TRUE]),
              resolved |-> item.listeners]
        ELSE [schema |-> sch, resolved |-> <<>>]

\* the helpEnd handler popping the listeners from the end of the list
HelpEndHandlerLifo(sch, args) ==
    LET method_or_type == Arg(args, 1).a
        item == GetItem(sch, method_or_type)
    IN  IF HasItem(sch, method_or_type)
        THEN [schema |-> PutItem(sch, [item EXCEPT !.complete = TRUE, !.listeners = <<>>]),
              resolved |-> [k \in 1..Len(item.listeners) |->
                               item.listeners[Len(item.listeners) + 1 - k]]]
        ELSE [schema |-> sch, resolved |-> <<>>]

(***************************************************************************)
(* The 'helpEnd' handler (lines 142-150): the schema afterwards and the    *)
(* continuations it resolved, in the order it called them.                 *)
(***************************************************************************)
HelpEndHandler(sch, args) ==
    LET method_or_type == Arg(args, 1).a
        item == GetItem(sch, method_or_type)
    IN  IF HasItem(sch, method_or_type)
        THEN [schema |-> PutItem(sch, [item EXCEPT !.complete = TRUE, !.listeners = <<>>]),
              resolved |-> item.listeners]
        ELSE [schema |-> sch, resolved |-> <<>>]

(***************************************************************************)
(* The shell 'close' handler (lines 46-55): every key is deleted and the   *)
(* listeners of every incomplete item are called, key by key.              *)
(***************************************************************************)
RECURSIVE CloseResolved(_)
CloseResolved(sch) ==
    IF sch = <<>> THEN <<>>
    ELSE (IF ~Head(sch).complete THEN Head(sch).listeners ELSE <<>>) \o CloseResolved(Tail(sch))

(***************************************************************************)
(* isIncorrectPrimitive (lines 406-424).                                   *)
(***************************************************************************)
RECURSIVE StringOf(_)
\* String(value), the conversion parseFloat and unary plus start from
StringOf(v) ==
    CASE v.k = "null" -> <<"n", "u", "l", "l">>
      [] v.k = "bool" -> JSONstringify(v)
      [] v.k = "arr" ->
            Join([i \in 1..Len(v.e) |-> IF v.e[i].k = "null" THEN <<>> ELSE StringOf(v.e[i])], ",")
      [] v.k = "obj" -> <<"[", "o", "b", "j", "e", "c", "t", SP, "O", "b", "j", "e", "c", "t", "]">>
      [] OTHER -> v.a

\* s without a leading sign
NoSign(s) == IF s # <<>> /\ Head(s) \in {"-", "+"} THEN Tail(s) ELSE s

\* a decimal literal: digits, digits.digits, digits. or .digits
IsDecimalText(s) ==
    LET u == NoSign(s)
        int == DigitRun(u)
        after == SubSeq(u, Len(int) + 1, Len(u))
    IN  \/ int # <<>> /\ after = <<>>
        \/ /\ after # <<>>
           /\ Head(after) = "."
           /\ DigitRun(Tail(after)) = Tail(after)
           /\ (int # <<>> \/ Tail(after) # <<>>)

\* Number.isNaN(Number.parseFloat(value)): no number starts the text
ParseFloatIsNaN(v) ==
    LET u == NoSign(TrimLeft(StringOf(v)))
    IN  ~(u # <<>> /\ (IsDigit(Head(u)) \/ (Head(u) = "." /\ Len(u) >= 2 /\ IsDigit(u[2]))))

\* Number.isNaN(+value)
PlusIsNaN(v) ==
    CASE v.k \in {"null", "bool"} -> FALSE
      [] OTHER -> Trim(StringOf(v)) # <<>> /\ ~IsDecimalText(Trim(StringOf(v)))

\* Number.isInteger(+value), for a value whose +value is a number
PlusIsInteger(v) ==
    LET u == NoSign(Trim(StringOf(v)))
        int == DigitRun(u)
    IN  v.k \in {"null", "bool"} \/ AllZero(SubSeq(u, Len(int) + 2, Len(u)))

N_Integer == <<"I", "n", "t", "e", "g", "e", "r">>
N_long == <<"l", "o", "n", "g">>
N_Long == <<"L", "o", "n", "g">>
N_double == <<"d", "o", "u", "b", "l", "e">>
N_Double == <<"D", "o", "u", "b", "l", "e">>
N_boolean == <<"b", "o", "o", "l", "e", "a", "n">>
N_Boolean == <<"B", "o", "o", "l", "e", "a", "n">>
N_String == <<"S", "t", "r", "i", "n", "g">>

\* type.type_name: only an item the 'help' handler made as a type has one
TypeName(type) == IF type.kind = "type" THEN type.name ELSE <<>>

\* a check of the integer kinds that leaves out Number.isInteger
isIncorrectPrimitiveAsDouble(type, value) ==
    CASE TypeName(type) \in {N_int, N_Integer, N_long, N_Long, N_double, N_Double} ->
            ParseFloatIsNaN(value) \/ PlusIsNaN(value)
      [] TypeName(type) \in {N_boolean, N_Boolean} -> Truthy(value) /\ value.k # "bool"
      [] TypeName(type) = N_String -> value.k \in {"arr", "obj"}
      [] OTHER -> FALSE

isIncorrectPrimitive(type, value) ==
    CASE TypeName(type) \in {N_int, N_Integer, N_long, N_Long} ->
            ParseFloatIsNaN(value) \/ PlusIsNaN(value) \/ ~PlusIsInteger(value)
      [] TypeName(type) \in {N_double, N_Double} ->
            ParseFloatIsNaN(value) \/ PlusIsNaN(value)
      [] TypeName(type) \in {N_boolean, N_Boolean} -> Truthy(value) /\ value.k # "bool"
      [] TypeName(type) = N_String -> value.k \in {"arr", "obj"}
      [] OTHER -> FALSE

(***************************************************************************)
(* assertType (lines 366-401), from the point where completeItem has       *)
(* returned `type`: what the branch taken decides at once.  "each" stands  *)
(* for the sequential reduce over the elements of an array, "all" for the  *)
(* Promise.all over the keys of an object.                                 *)
(***************************************************************************)
\* Object.keys(type.object_properties)
PropertyNames(type) == [i \in 1..Len(type.object_properties) |-> type.object_properties[i][1]]

InSeq(x, seq) == \E i \in 1..Len(seq) : seq[i] = x

\* a membership test that finds every primitive
IsPrimitiveValue(type, value) == value.k \in {"num", "str", "bool", "null"}

\* ~type.values.indexOf(param_value): strict equality, so only a primitive is found
IsEnumValue(type, value) == value.k \in {"num", "str", "bool", "null"} /\ InSeq(value, type.values)

Digits == <<"0", "1", "2", "3", "4", "5", "6", "7", "8", "9">>

\* Object.keys(param_value): the names of an object, the indexes of an array
KeysOf(value) ==
    IF value.k = "obj" THEN value.n
    ELSE [i \in 1..Len(value.e) |-> <<Digits[i]>>]

\* an array branch that lets a value that is not an array pass
AssertTypeBranchLax(type, param_type, param_value) ==
    IF type.kind = "none" THEN "ok"
    ELSE IF IsArrayType(param_type)
    THEN (IF param_value.k = "arr" THEN "each" ELSE "ok")
    ELSE IF type.kind = "action" THEN "fail"
    ELSE IF Len(type.values) > 0 /\ ~IsEnumValue(type, param_value) THEN "fail"
    ELSE IF param_value.k \in {"arr", "obj"} /\ Len(type.object_properties) > 0 THEN "all"
    ELSE IF param_value.k # "null" /\ Len(type.object_properties) > 0 THEN "fail"
    ELSE IF param_value.k # "null" /\ isIncorrectPrimitive(type, param_value) THEN "fail"
    ELSE "ok"

\* an object branch that does not look into the object
AssertTypeBranchShallow(type, param_type, param_value) ==
    IF type.kind = "none" THEN "ok"
    ELSE IF IsArrayType(param_type)
    THEN (IF param_value.k = "arr" THEN "each"
          ELSE IF param_value.k # "null" THEN "fail" ELSE "ok")
    ELSE IF type.kind = "action" THEN "fail"
    ELSE IF Len(type.values) > 0 /\ ~IsEnumValue(type, param_value) THEN "fail"
    ELSE IF param_value.k \in {"arr", "obj"} /\ Len(type.object_properties) > 0 THEN "ok"
    ELSE IF param_value.k # "null" /\ Len(type.object_properties) > 0 THEN "fail"
    ELSE IF param_value.k # "null" /\ isIncorrectPrimitive(type, param_value) THEN "fail"
    ELSE "ok"

AssertTypeBranch(type, param_type, param_value) ==
    IF type.kind = "none" THEN "ok"
    ELSE IF IsArrayType(param_type)
    THEN (IF param_value.k = "arr" THEN "each"
          ELSE IF param_value.k # "null" THEN "fail" ELSE "ok")
    ELSE IF type.kind = "action" THEN "fail"
    ELSE IF Len(type.values) > 0 /\ ~IsEnumValue(type, param_value) THEN "fail"
    ELSE IF param_value.k \in {"arr", "obj"} /\ Len(type.object_properties) > 0 THEN "all"
    ELSE IF param_value.k # "null" /\ Len(type.object_properties) > 0 THEN "fail"
    ELSE IF param_value.k # "null" /\ isIncorrectPrimitive(type, param_value) THEN "fail"
    ELSE "ok"

(***************************************************************************)
(* The client of createInstanceAsync.                                      *)
(***************************************************************************)
VARIABLES
    kind,          \* the transport createShell returned: "socket" or "process"
    phase,         \* "open", "closing" (kill sent, no close event yet),
                   \* "exited" (the child's 'exit' event was handled, its own
                   \* 'close' event is still to come) or "closed"
    destroyed,     \* shell.destroyed (a socket's property)
    killed,        \* shell.killed (a child process's property)
    schema,        \* the registry
    methods,       \* the action methods installed on self, each with its item
    calls,         \* the calls of the action methods made so far
    mq,            \* the continuations ready to run, in order (the microtask queue)
    inflight,      \* the lines the peer has written and the client has not read
    written,       \* the arguments of every send that wrote a line, in order
    needDrain,     \* a write returned false and no 'drain' event followed yet
    exits,         \* how many times self emitted 'exit'
    errors,        \* how many times self emitted 'error'
    construction,  \* the promise createInstanceAsync returns
    buffer,        \* the carry-over of the 'data' handler
    cname, cargs, cform,   \* codec specification: the record encoded
    sent,          \* codec specification: the line encoded
    wire,          \* codec specification: the part of the line not yet fed
    nchunks,       \* codec specification: the chunks fed so far
    emitted,       \* the records the 'data' handler emitted, in order
    settings,      \* createShell: its argument
    spc,           \* createShell: where it is
    tws_port, json_port, inused,   \* createShell: its constants of these names
    tried,         \* createShell: the connection methods attempted, in order
    outcome,       \* createShell: "none", what it returned, or what it threw
    found,         \* createShell: its last scan of TWS ports found one in use
    launches,      \* how many times launchTws was called
    ms, clock      \* waitForLocalPorts: its delay and the time passed in it

clientVars ==
    <<kind, phase, destroyed, killed, schema, methods, calls, mq, inflight, written,
      needDrain, exits, errors, construction>>
codecVars == <<cname, cargs, cform, sent, wire, nchunks, emitted>>
shellVars ==
    <<settings, spc, tws_port, json_port, inused, tried, outcome, found, launches, ms, clock>>
vars == <<clientVars, codecVars, buffer, shellVars>>

\* finished (line 45)
finished == destroyed \/ killed

(***************************************************************************)
(* The peer.  It answers a help query with the help records of the name    *)
(* asked for, then helpEnd, in the line format the README shows.           *)
(***************************************************************************)
\* the actions of the peer and their parameters
PeerActions == <<N_exit, N_isConnected, N_sleep>>

\* names of the peer's help action and of an action that takes a list
N_name == <<"n", "a", "m", "e">>
N_waitAll == <<"w", "a", "i", "t", "A", "l", "l">>
N_list == <<"l", "i", "s", "t">>
N_intList == <<"[", "i", "n", "t", "]">>
N_EWrapper == <<"E", "W", "r", "a", "p", "p", "e", "r">>
N_tickPrice == <<"t", "i", "c", "k", "P", "r", "i", "c", "e">>

PeerParams(action) ==
    CASE action = N_sleep -> << <<N_ms, N_int>> >>
      [] action = N_help -> << <<N_name, N_String>> >>
      [] action = N_waitAll -> << <<N_list, N_intList>>, <<N_ms, N_int>> >>
      [] OTHER -> <<>>

\* the answer to help with no argument: the category, its actions, helpEnd
PeerBootstrap ==
    <<PlainLine(N_help, <<JStr(N_actions), JStr(N_Shell)>>)>>
    \o [i \in 1..Len(PeerActions) |-> PlainLine(N_help, <<JStr(N_Shell), JStr(PeerActions[i])>>)]
    \o <<PlainLine(N_helpEnd, <<>>)>>

\* the actions of a peer that lists its help action and an action that takes
\* a list; help "Shell" lists them again (README line 29)
HelpPeerActions == <<N_help, N_sleep, N_waitAll>>

\* the answer to help "name": the actions of the category, the events of
\* the category (README line 176), or the parameters of the action, then
\* helpEnd
PeerHelp(name) ==
    (IF name = N_Shell
     THEN [i \in 1..Len(HelpPeerActions) |->
              PlainLine(N_help, <<JStr(N_Shell), JStr(HelpPeerActions[i])>>)]
     ELSE IF name = N_EWrapper
     THEN <<PlainLine(N_help, <<JStr(N_EWrapper), JStr(N_tickPrice)>>)>>
     ELSE [i \in 1..Len(PeerParams(name)) |->
              PlainLine(N_help, <<JStr(name), JStr(PeerParams(name)[i][1]),
                                 JStr(PeerParams(name)[i][2]), JNull>>)])
    \o <<PlainLine(N_helpEnd, <<JStr(name)>>)>>

PeerAnswer(call_name, args) ==
    IF call_name # N_help THEN <<>>
    ELSE IF args = <<>> THEN PeerBootstrap
    ELSE PeerHelp(args[1].a)

(***************************************************************************)
(* The handlers and the action methods are operators on a world: the       *)
(* client's variables as one record, so that one handler's writes,         *)
(* registry updates and resolved continuations can follow one another.     *)
(***************************************************************************)
\* self.once('error', ...) of the bootstrap promise (line 153) is still
\* attached: no 'error' event was emitted, by the client or for an error
\* record of the peer
ErrorListenerAttached ==
    errors = 0 /\ \A i \in 1..Len(emitted) : emitted[i].name # N_error

World ==
    [schema |-> schema, methods |-> methods, calls |-> calls, mq |-> mq,
     inflight |-> inflight, written |-> written, needDrain |-> needDrain,
     errors |-> errors, construction |-> construction, threw |-> FALSE,
     errorOnce |-> ErrorListenerAttached]

\* the peer reads what is written while its end of the transport is open
PeerReads == phase = "open" \/ (kind = "process" /\ phase = "closing")

\* shell.write(call.join('\t')) in send (line 358), and the peer's answer
Write(w, call_name, args) ==
    [w EXCEPT !.written = Append(@, [name |-> call_name, args |-> args]),
              !.inflight = IF PeerReads THEN @ \o PeerAnswer(call_name, args) ELSE @]

\* [item.action_name || item.type_name] (line 346)
HelpArgs(item) == IF item.kind \in {"action", "type"} THEN <<JStr(item.name)>> ELSE <<JNull>>

\* completeItem without the requested flag: every waiter on an incomplete
\* item sends a help query of its own
completeItemAlwaysAsks(w, name, waiter) ==
    LET item == GetItem(w.schema, ItemName(name))
    IN  IF HasItem(w.schema, ItemName(name)) /\ ~item.complete
        THEN Write([w EXCEPT !.schema = PutItem(@, [item EXCEPT
                                          !.listeners = Append(@, waiter),
                                          !.requested = TRUE])],
                   N_help, HelpArgs(item))
        ELSE [w EXCEPT !.mq = Append(@, waiter)]

\* completeItem that sends the help query and does not wait for its answer
completeItemNoWait(w, name, waiter) ==
    LET item == GetItem(w.schema, ItemName(name))
        ready == [w EXCEPT !.mq = Append(@, waiter)]
    IN  IF HasItem(w.schema, ItemName(name)) /\ ~item.complete /\ ~item.requested
        THEN Write([ready EXCEPT !.schema = PutItem(@, [item EXCEPT !.requested = TRUE])],
                   N_help, HelpArgs(item))
        ELSE ready

\* completeItem that replaces the waiters of the item by the new one
completeItemForgets(w, name, waiter) ==
    LET item == GetItem(w.schema, ItemName(name))
    IN  IF HasItem(w.schema, ItemName(name)) /\ ~item.complete
        THEN LET queued == [w EXCEPT !.schema = PutItem(@, [item EXCEPT
                                          !.listeners = <<waiter>>,
                                          !.requested = TRUE])]
             IN  IF item.requested THEN queued ELSE Write(queued, N_help, HelpArgs(item))
        ELSE [w EXCEPT !.mq = Append(@, waiter)]

\* completeItem (lines 337-351) up to its await: the waiter is queued on the
\* item, after a help query if none was sent, or continues at once
completeItem(w, name, waiter) ==
    LET item == GetItem(w.schema, ItemName(name))
    IN  IF HasItem(w.schema, ItemName(name)) /\ ~item.complete
        THEN LET queued == [w EXCEPT !.schema = PutItem(@, [item EXCEPT
                                          !.listeners = Append(@, waiter),
                                          !.requested = TRUE])]
             IN  IF item.requested THEN queued ELSE Write(queued, N_help, HelpArgs(item))
        ELSE [w EXCEPT !.mq = Append(@, waiter)]

(***************************************************************************)
(* A call of an action method (lines 101-121).  pc: "item" (awaiting       *)
(* completeItem), "validate" (awaiting Promise.all), "send" (about to      *)
(* send), "drain" and "close" (awaiting send), "tail" (after send), "done".*)
(* tasks are the runs of assertType the call started; a task's par is the  *)
(* task whose branch started it (0: the call itself), rest the elements    *)
(* of an array still to validate after it, kids the runs it awaits.        *)
(* The fields from afterClose on record the call's history.                *)
(***************************************************************************)
NewCall(action, args) ==
    [action |-> action, args |-> args, pc |-> "item", result |-> "pending",
     wrote |-> FALSE, tasks |-> <<>>, left |-> 0,
     afterClose |-> exits > 0, openAtInvoke |-> phase = "open",
     checked |-> "no", atClose |-> FALSE, notified |-> FALSE,
     asked |-> FALSE, exitsAtWrite |-> 0, room |-> "none", drained |-> FALSE]

\* an assertType run starts: completeItem(shell, schema, param_type)
StartTask(w, c, par, ptype, val, rest) ==
    LET t == Len(w.calls[c].tasks) + 1
        task == [par |-> par, ptype |-> ptype, val |-> val, rest |-> rest,
                 cap |-> IF HasItem(w.schema, ItemName(ptype)) THEN "live" ELSE "none",
                 typ |-> NoItem, st |-> "wait", kids |-> 0, example |-> JNull]
    IN  completeItem([w EXCEPT !.calls[c].tasks = Append(@, task)], ptype, <<c, t>>)

RECURSIVE StartAll(_, _, _, _, _)
\* item.param_types.map(async(param_type, i) => assertType(..., param_values[i]))
StartAll(w, c, par, ptypes, vals) ==
    IF ptypes = <<>> THEN w
    ELSE StartAll(StartTask(w, c, par, Head(ptypes),
                            IF vals # <<>> THEN Head(vals) ELSE JNull, <<>>),
                  c, par, Tail(ptypes), IF vals # <<>> THEN Tail(vals) ELSE <<>>)

\* Promise.all of the call resolved one more of its promises
ArgDone(w, c) ==
    LET w1 == [w EXCEPT !.calls[c].left = @ - 1]
    IN  IF w1.calls[c].left = 0 /\ w1.calls[c].pc = "validate"
        THEN [w1 EXCEPT !.calls[c].pc = "send", !.mq = Append(@, <<c, 0>>)]
        ELSE w1

RECURSIVE TaskOk(_, _, _)
\* an assertType run returned: the reduce goes on to the next element, or
\* the run that awaits it has one fewer to await
TaskOk(w, c, t) ==
    LET task == w.calls[c].tasks[t]
        w1 == [w EXCEPT !.calls[c].tasks[t].st = "ok"]
    IN  IF task.rest # <<>>
        THEN StartTask(w1, c, task.par, task.ptype, Head(task.rest), Tail(task.rest))
        ELSE IF task.par = 0 THEN ArgDone(w1, c)
        ELSE LET w2 == [w1 EXCEPT !.calls[c].tasks[task.par].kids = @ - 1]
             IN  IF w2.calls[c].tasks[task.par].st = "kids" /\ w2.calls[c].tasks[task.par].kids = 0
                 THEN TaskOk(w2, c, task.par)
                 ELSE w2

\* a throw that rejects every call that is validating
FailUpEvery(w, c, t) ==
    [w EXCEPT !.calls = [d \in 1..Len(w.calls) |->
        LET call == IF d = c THEN [w.calls[d] EXCEPT !.tasks[t].st = "fail"] ELSE w.calls[d]
        IN  IF call.pc = "validate"
            THEN [call EXCEPT !.pc = "done", !.result = "rejected"]
            ELSE call]]

RECURSIVE FailUp(_, _, _)
\* an assertType run threw: every run awaiting it rejects, and so does the call
FailUp(w, c, t) ==
    LET task == w.calls[c].tasks[t]
        w1 == [w EXCEPT !.calls[c].tasks[t].st = "fail"]
    IN  IF task.par = 0
        THEN (IF w1.calls[c].pc = "validate"
              THEN [w1 EXCEPT !.calls[c].pc = "done", !.calls[c].result = "rejected"]
              ELSE w1)
        ELSE IF w1.calls[c].tasks[task.par].st = "fail" THEN w1
        ELSE FailUp(w1, c, task.par)

\* type.object_properties[key]
PropertyType(type, key) ==
    type.object_properties[CHOOSE i \in 1..Len(type.object_properties) :
                               type.object_properties[i][1] = key][2]

RECURSIVE StartKeys(_, _, _, _, _, _)
\* Object.keys(param_value).map(...): a run starts for every declared key
StartKeys(w, c, t, type, val, i) ==
    IF i > Len(KeysOf(val)) THEN w
    ELSE IF InSeq(KeysOf(val)[i], PropertyNames(type))
    THEN StartKeys(StartTask(w, c, t, PropertyType(type, KeysOf(val)[i]), val.e[i], <<>>),
                   c, t, type, val, i + 1)
    ELSE StartKeys(w, c, t, type, val, i + 1)

\* an example that is the offending value itself
ExampleEchoesValue(type, value) == value

\* lines 386-390: the declared defaults {...type.object_values} with the
\* value's entries under declared keys assigned over them
Example(type, value) ==
    JObj([i \in 1..Len(type.object_values) |-> type.object_values[i][1]],
         [i \in 1..Len(type.object_values) |->
            LET name == type.object_values[i][1]
            IN  IF InSeq(name, PropertyNames(type)) /\ InSeq(name, KeysOf(value))
                THEN value.e[CHOOSE k \in 1..Len(KeysOf(value)) : KeysOf(value)[k] = name]
                ELSE type.object_values[i][2]])

\* the `type` an assertType run got from completeItem
TaskType(w, task) ==
    CASE task.cap = "none" -> NoItem
      [] task.cap = "dead" -> task.typ
      [] OTHER -> GetItem(w.schema, ItemName(task.ptype))

\* an assertType run continues after its await of completeItem
RunTask(w, c, t) ==
    LET task == w.calls[c].tasks[t]
        type == TaskType(w, task)
        branch == AssertTypeBranch(type, task.ptype, task.val)
        known == {i \in 1..Len(KeysOf(task.val)) : InSeq(KeysOf(task.val)[i], PropertyNames(type))}
        awaiting(n) == [w EXCEPT !.calls[c].tasks[t].st = "kids", !.calls[c].tasks[t].kids = n]
    IN  CASE branch = "ok" -> TaskOk(w, c, t)
          [] branch = "fail" -> FailUp(w, c, t)
          [] branch = "each" ->
                IF task.val.e = <<>> THEN TaskOk(w, c, t)
                ELSE IF TypeName(type) = <<>> THEN FailUp(w, c, t)
                ELSE StartTask(awaiting(1), c, t, TypeName(type),
                               Head(task.val.e), Tail(task.val.e))
          [] branch = "all" ->
                IF Cardinality(known) < Len(KeysOf(task.val))
                THEN FailUp([StartKeys(awaiting(Cardinality(known)), c, t, type, task.val, 1)
                                EXCEPT !.calls[c].tasks[t].example = Example(type, task.val)],
                            c, t)
                ELSE IF known = {} THEN TaskOk(w, c, t)
                ELSE StartKeys(awaiting(Cardinality(known)), c, t, type, task.val, 1)

\* the item the installed method of an action closes over: the registry's
\* entry while the registry holds it, the object as it was deleted afterwards
MethodItem(w, action) ==
    LET m == w.methods[CHOOSE i \in 1..Len(w.methods) : w.methods[i].name = action]
    IN  IF m.live THEN GetItem(w.schema, action) ELSE m.item

HasMethod(action) == \E i \in 1..Len(methods) : methods[i].name = action

\* a count check that only sees missing arguments
TooFewParameters(param_values, param_types) == Len(param_values) < Len(param_types)

\* param_values.length != item.param_types.length (line 105)
IncorrectParameters(param_values, param_types) == Len(param_values) # Len(param_types)

\* a send that waits for 'drain' only, whatever the call's name
SendAwaitsDrainOnly(call_name, room) == IF ~room THEN "drain" ELSE "tail"

\* a send that never waits for 'drain'
SendAwaitsNoDrain(call_name, room) == IF call_name = N_exit THEN "close" ELSE "tail"

\* what the call awaits after send wrote its line (lines 359-360)
SendAwaits(call_name, room) ==
    IF call_name = N_exit THEN "close"
    ELSE IF ~room THEN "drain"
    ELSE "tail"

\* lines 113-120: how the call settles
Settle(w, c) ==
    LET call == w.calls[c]
    IN  IF ~finished \/ call.action = N_exit
        THEN [w EXCEPT !.calls[c].pc = "done", !.calls[c].result = "resolved"]
        ELSE IF call.action = N_isConnected
        THEN [w EXCEPT !.calls[c].pc = "done", !.calls[c].result = "resolved",
                       !.calls[c].notified = TRUE]
        ELSE [w EXCEPT !.calls[c].pc = "done", !.calls[c].result = "rejected"]

\* lines 104-110: after the await of completeItem
CheckAndValidate(w, c) ==
    LET call == w.calls[c]
        item == MethodItem(w, call.action)
        w1 == [w EXCEPT !.calls[c].checked = IF phase = "open" THEN "open" ELSE "shut"]
    IN  IF ~finished /\ IncorrectParameters(call.args, item.param_types)
        THEN [w1 EXCEPT !.calls[c].pc = "done", !.calls[c].result = "rejected"]
        ELSE IF item.param_types = <<>>
        THEN [w1 EXCEPT !.calls[c].pc = "send", !.mq = Append(@, <<c, 0>>)]
        ELSE StartAll([w1 EXCEPT !.calls[c].pc = "validate",
                                 !.calls[c].left = Len(item.param_types)],
                      c, 0, item.param_types, call.args)

\* line 111: if (!finished()) await send(shell, item.action_name, param_values)
SendOrSettle(w, c, room) ==
    LET call == w.calls[c]
        next == SendAwaits(call.action, room)
        w1 == [Write(w, call.action, call.args) EXCEPT
                  !.calls[c].wrote = TRUE,
                  !.calls[c].exitsAtWrite = exits,
                  !.calls[c].room = IF room THEN "yes" ELSE "no",
                  !.calls[c].pc = next,
                  !.needDrain = @ \/ ~room]
    IN  IF finished THEN Settle(w, c)
        ELSE IF next = "tail" THEN [w1 EXCEPT !.mq = Append(@, <<c, 0>>)]
        ELSE w1

\* the continuation of a call or of one of its assertType runs
Continue(w, c, t, room) ==
    IF t > 0 THEN RunTask(w, c, t)
    ELSE CASE w.calls[c].pc = "item" -> CheckAndValidate(w, c)
           [] w.calls[c].pc = "send" -> SendOrSettle(w, c, room)
           [] w.calls[c].pc = "tail" -> Settle(w, c)

(***************************************************************************)
(* self.emit(name, ...args) for one record of the 'data' handler: the      *)
(* 'help' and 'helpEnd' handlers and the listeners of the bootstrap        *)
(* promise (lines 151-157).  A handler that throws sets threw.             *)
(***************************************************************************)
Install(meths, action) ==
    IF \E i \in 1..Len(meths) : meths[i].name = action
    THEN [i \in 1..Len(meths) |->
            IF meths[i].name = action THEN [meths[i] EXCEPT !.live = TRUE, !.item = NoItem]
            ELSE meths[i]]
    ELSE Append(meths, [name |-> action, live |-> TRUE, item |-> NoItem])

\* a bootstrap promise that any record named help makes ready
ReadyOnHelp(state, name) ==
    IF name \in {N_help, N_helpEnd} /\ state = "pending" THEN "resolved" ELSE state

\* self.once('helpEnd', ready) (line 154): the promise after a record of this name
ReadyOnHelpEnd(state, name) ==
    IF name = N_helpEnd /\ state = "pending" THEN "resolved" ELSE state

\* self.once('error', err => typeof err == 'object' && fail(err)) (line 153):
\* the promise after an 'error' event with this first argument
FailOnError(state, attached, args) ==
    IF state = "pending" /\ attached /\ args # <<>> /\ args[1].k \in {"obj", "arr", "null"}
    THEN "rejected" ELSE state

EmitRecord(w, record) ==
    IF record.name = N_help
    THEN LET h == HelpHandler(w.schema, record.args)
         IN  [w EXCEPT !.schema = h.schema,
                       !.methods = IF h.installed # <<>> /\ GetItem(h.schema, h.installed).kind = "action"
                                   THEN Install(@, h.installed) ELSE @,
                       !.threw = h.threw,
                       !.construction = ReadyOnHelpEnd(@, record.name)]
    ELSE IF record.name = N_helpEnd
    THEN LET h == HelpEndHandler(w.schema, record.args)
         IN  [w EXCEPT !.schema = h.schema,
                       !.mq = @ \o h.resolved,
                       !.construction = ReadyOnHelpEnd(@, record.name)]
    ELSE IF record.name = N_error
    THEN [w EXCEPT !.errorOnce = FALSE,
                   !.construction = FailOnError(@, w.errorOnce, record.args)]
    ELSE w

RECURSIVE EmitAll(_, _)
\* lines.forEach(...), left at the first record whose handler throws
EmitAll(w, records) ==
    IF records = <<>> \/ w.threw THEN w
    ELSE EmitAll(EmitRecord(w, Head(records)), Tail(records))

\* the whole 'data' handler (lines 60-71) on one chunk: the catch emits 'error',
\* which rejects a pending construction (line 153)
OnData(w, chunk) ==
    LET d == DataHandler(buffer, chunk)
        w1 == EmitAll(w, d.emitted)
    IN  IF w1.threw
        THEN [w1 EXCEPT !.errors = @ + 1,
                        !.errorOnce = FALSE,
                        !.construction = IF @ = "pending" /\ w1.errorOnce THEN "rejected" ELSE @]
        ELSE w1

(***************************************************************************)
(* The shell 'close' handler (lines 46-55) and the listeners send put on   *)
(* 'close' (line 359), which run after it.                                 *)
(***************************************************************************)
Detach(w, tasks) ==
    [t \in 1..Len(tasks) |->
        IF tasks[t].cap = "live" /\ tasks[t].st = "wait"
        THEN [tasks[t] EXCEPT !.cap = "dead",
                 !.typ = [GetItem(w.schema, ItemName(tasks[t].ptype)) EXCEPT !.listeners = <<>>]]
        ELSE tasks[t]]

RECURSIVE CloseWaiters(_, _)
CloseWaiters(cs, c) ==
    IF c > Len(cs) THEN <<>>
    ELSE (IF cs[c].pc = "close" THEN << <<c, 0>> >> ELSE <<>>) \o CloseWaiters(cs, c + 1)

OnClose(w) ==
    [w EXCEPT
        !.schema = <<>>,
        !.methods = [i \in 1..Len(w.methods) |->
                        IF w.methods[i].live
                        THEN [name |-> w.methods[i].name, live |-> FALSE,
                              item |-> [GetItem(w.schema, w.methods[i].name) EXCEPT
                                            !.listeners = <<>>]]
                        ELSE w.methods[i]],
        !.calls = [c \in 1..Len(w.calls) |->
                        [w.calls[c] EXCEPT
                            !.tasks = Detach(w, w.calls[c].tasks),
                            !.atClose = w.calls[c].atClose \/ w.calls[c].result = "pending",
                            !.pc = IF w.calls[c].pc = "close" THEN "tail" ELSE w.calls[c].pc]],
        !.mq = w.mq \o CloseResolved(w.schema) \o CloseWaiters(w.calls, 1),
        !.construction = IF w.construction = "pending" THEN "rejected" ELSE w.construction]

(***************************************************************************)
(* createShell (lines 163-203) and the functions it calls.  A port is a    *)
(* number, 0 where the code has 0, false or undefined.                     *)
(***************************************************************************)
\* +settings['jsonApiPortOffset'] || 100, the offset left unset
json_port_offset == 100

\* let ms = 1000 of waitForLocalPorts
FirstDelay == 1000

\* the settings['timeout'] of the model, in milliseconds
PollTimeout == 14000

\* the arguments of createShell in the model
SettingsSpace ==
    [twsApiPort : {0, 7496}, twsApiHost : BOOLEAN, jsonApiPort : {0, 7600},
     jsonApiHost : BOOLEAN, noLaunch : BOOLEAN, interactive : BOOLEAN, noPrompt : BOOLEAN]

\* the constants tws_ports, tws_host, json_ports, json_host of createShell
tws_ports ==
    IF settings.twsApiHost THEN <<>>
    ELSE IF settings.twsApiPort # 0 THEN <<settings.twsApiPort>>
    ELSE <<4002, 7497, 4001, 7496>>
tws_host == settings.twsApiHost
json_ports ==
    IF settings.jsonApiHost THEN <<>>
    ELSE IF settings.jsonApiPort # 0 THEN <<settings.jsonApiPort>>
    ELSE [i \in 1..Len(tws_ports) |-> json_port_offset + tws_ports[i]]
json_host == settings.jsonApiHost \/ tws_host

\* what scanLocalPorts(ports) can return: 0, or a port of the list
ScanResults(ports) == {0} \cup {ports[i] : i \in 1..Len(ports)}

\* a stand-alone branch that forgets the configured JSON port
StandAloneAnyPort == tws_port # 0

\* tws_port && !settings['jsonApiPort'] (line 178)
StandAloneBranch == tws_port # 0 /\ settings.jsonApiPort = 0

\* a launch branch that does not look at noLaunch
MayLaunchAgain == ~json_host /\ ~settings.interactive /\ ~settings.noPrompt

\* the launch branch is open (line 189)
MayLaunch ==
    ~settings.noLaunch /\ ~json_host /\ ~settings.interactive /\ ~settings.noPrompt

\* createShell has returned a shell: the state a client is built in
ShellReturned ==
    /\ settings \in {[twsApiPort |-> 0, twsApiHost |-> FALSE, jsonApiPort |-> 0,
                       jsonApiHost |-> FALSE, noLaunch |-> FALSE, interactive |-> FALSE,
                       noPrompt |-> FALSE]}
    /\ spc = "done"
    /\ tws_port = 0 /\ json_port = 0 /\ inused = 0
    /\ tried = <<>>
    /\ outcome = "none"
    /\ found = FALSE
    /\ launches = 0
    /\ ms = FirstDelay /\ clock = 0

(***************************************************************************)
(* The steps of the client.  A continuation runs whenever one is ready;    *)
(* an event of the transport is handled only when none is (the event loop  *)
(* runs the ready continuations first); the caller may invoke a method or  *)
(* kill between any two of them.                                           *)
(***************************************************************************)
\* the state createInstanceAsync leaves when it returns its promise: the
\* handlers are installed and send(shell, 'help', []) has written (line 156)
Init ==
    /\ kind \in {"socket", "process"}
    /\ phase = "open"
    /\ destroyed = FALSE
    /\ killed = FALSE
    /\ schema = <<>>
    /\ methods = <<>>
    /\ calls = <<>>
    /\ mq = <<>>
    /\ inflight = PeerBootstrap
    /\ written = <<[name |-> N_help, args |-> <<>>]>>
    /\ needDrain = FALSE
    /\ exits = 0
    /\ errors = 0
    /\ construction = "pending"
    /\ buffer = <<>>
    /\ cname = <<>> /\ cargs = <<>> /\ cform = "none"
    /\ sent = <<>> /\ wire = <<>> /\ nchunks = 0 /\ emitted = <<>>
    /\ ShellReturned

\* the world becomes the state
Becomes(w) ==
    /\ schema' = w.schema
    /\ methods' = w.methods
    /\ calls' = w.calls
    /\ mq' = w.mq
    /\ inflight' = w.inflight
    /\ written' = w.written
    /\ needDrain' = w.needDrain
    /\ errors' = w.errors
    /\ construction' = w.construction

\* the call wrote a help query in the step from before to after
Asked(before, after, c) ==
    LET own == IF after.calls[c].wrote /\ (c > Len(before.calls) \/ ~before.calls[c].wrote)
               THEN 1 ELSE 0
    IN  [after EXCEPT !.calls[c].asked = @ \/ Len(after.written) > Len(before.written) + own]

\* the argument lists the caller passes
CallArgs == {<<>>, <<JNum(<<"1">>)>>, <<JStr(N_two)>>}

\* the caller invokes self[action](...args): the method runs to its first
\* await (line 103), or to its end when the transport has finished
Invoke(action, args) ==
    /\ construction = "resolved"
    /\ Len(calls) < MaxCalls
    /\ HasMethod(action)
    /\ LET c == Len(calls) + 1
           w == [World EXCEPT !.calls = Append(@, NewCall(action, args))]
       IN  Becomes(IF finished THEN Settle(w, c)
                   ELSE Asked(World, completeItem(w, action, <<c, 0>>), c))
    /\ UNCHANGED <<kind, phase, destroyed, killed, exits, buffer, codecVars, shellVars>>

\* the first ready continuation runs; room is what shell.write returns if it
\* is the continuation that sends
Resume(room) ==
    /\ mq # <<>>
    /\ LET c == Head(mq)[1]
           t == Head(mq)[2]
           w == [World EXCEPT !.mq = Tail(@)]
       IN  /\ room \/ (t = 0 /\ calls[c].pc = "send" /\ ~finished)
           /\ Becomes(Asked(World, Continue(w, c, t, room), c))
    /\ UNCHANGED <<kind, phase, destroyed, killed, exits, buffer, codecVars, shellVars>>

\* the transport still delivers 'data' events
Readable == phase = "open" \/ (kind = "process" /\ phase \in {"closing", "exited"})

\* a 'data' event with the next line of the peer
Data ==
    /\ mq = <<>>
    /\ Readable
    /\ inflight # <<>>
    /\ LET w == OnData([World EXCEPT !.inflight = Tail(@)], Head(inflight))
       IN  /\ Becomes([w EXCEPT !.threw = FALSE])
           /\ buffer' = IF w.threw THEN buffer ELSE DataHandler(buffer, Head(inflight)).buffer
           /\ emitted' = emitted \o DataHandler(buffer, Head(inflight)).emitted
    /\ UNCHANGED <<kind, phase, destroyed, killed, exits, shellVars,
                   cname, cargs, cform, sent, wire, nchunks>>

\* a 'drain' event: the listeners send put on it (line 360) continue
Drain ==
    /\ mq = <<>>
    /\ needDrain
    /\ PeerReads
    /\ calls' = [c \in 1..Len(calls) |->
                    IF calls[c].pc = "drain"
                    THEN [calls[c] EXCEPT !.pc = "tail", !.drained = TRUE]
                    ELSE calls[c]]
    /\ mq' = [i \in 1..Cardinality({c \in 1..Len(calls) : calls[c].pc = "drain"}) |->
                <<CHOOSE c \in 1..Len(calls) :
                    /\ calls[c].pc = "drain"
                    /\ Cardinality({d \in 1..c : calls[d].pc = "drain"}) = i, 0>>]
    /\ needDrain' = FALSE
    /\ UNCHANGED <<kind, phase, destroyed, killed, schema, methods, inflight, written,
                   exits, errors, construction, buffer, codecVars, shellVars>>

\* self.kill(): shell.destroy() (line 56), which on a child process is
\* process.kill() (line 232)
Kill ==
    /\ phase = "open"
    /\ construction = "resolved"
    /\ phase' = "closing"
    /\ destroyed' = (kind = "socket")
    /\ killed' = (kind = "process")
    /\ UNCHANGED <<kind, schema, methods, calls, mq, inflight, written, needDrain,
                   exits, errors, construction, buffer, codecVars, shellVars>>

\* the socket's 'close' event, after destroy or after the peer ended it
SocketClose ==
    /\ mq = <<>>
    /\ kind = "socket"
    /\ phase \in {"open", "closing"}
    /\ phase' = "closed"
    /\ destroyed' = TRUE
    /\ exits' = exits + 1
    /\ Becomes(OnClose(World))
    /\ UNCHANGED <<kind, killed, buffer, codecVars, shellVars>>

\* the child's 'exit' event, whose listener emits 'close' (line 233)
ProcessExit ==
    /\ mq = <<>>
    /\ kind = "process"
    /\ phase \in {"open", "closing"}
    /\ phase' = "exited"
    /\ exits' = exits + 1
    /\ Becomes(OnClose(World))
    /\ UNCHANGED <<kind, destroyed, killed, buffer, codecVars, shellVars>>

\* the child's own 'close' event, once its streams have ended
NativeClose ==
    /\ mq = <<>>
    /\ kind = "process"
    /\ phase = "exited"
    /\ phase' = "closed"
    /\ exits' = exits + 1
    /\ Becomes(OnClose(World))
    /\ UNCHANGED <<kind, destroyed, killed, buffer, codecVars, shellVars>>

Next ==
    \/ \E i \in 1..Len(PeerActions), args \in CallArgs : Invoke(PeerActions[i], args)
    \/ \E room \in BOOLEAN : Resume(room)
    \/ Data
    \/ Drain
    \/ Kill
    \/ SocketClose
    \/ ProcessExit
    \/ NativeClose

Spec == Init /\ [][Next]_vars

(***************************************************************************)
(* The codec on its own: one record is encoded, as send writes it or in    *)
(* the peer's format, and the line is fed to the 'data' handler of a fresh *)
(* client in one chunk or in two, cut at any position.                     *)
(***************************************************************************)
\* the lines of at most n characters a peer can write: a letter, a space
\* and a tab in every arrangement (no newline: the handler splits on it)
RECURSIVE RawLines(_)
RawLines(n) ==
    IF n = 0 THEN {<<>>}
    ELSE RawLines(n - 1) \cup {Append(l, x) : l \in {k \in RawLines(n - 1) : Len(k) = n - 1},
                                               x \in {"a", SP, TAB}}


\* the fields of the peer's error records that are JSON: a message, and
\* an id, a code and a message; the third shape, "bare", is a message that
\* is written as it is
ErrorShapes ==
    {<<JStr(<<"a", SP, "b">>)>>,
     <<JNum(<<"1">>), JNum(<<"1">>), JStr(<<"a", SP, "b">>)>>}

\* all the argument lists of at most n atoms
RECURSIVE ArgLists(_)
ArgLists(n) ==
    IF n = 0 THEN {<<>>}
    ELSE ArgLists(n - 1) \cup {Append(l, x) : l \in {k \in ArgLists(n - 1) : Len(k) = n - 1},
                                               x \in JsonAtoms}

InitCodec ==
    /\ kind = "socket"
    /\ phase = "open"
    /\ destroyed = FALSE
    /\ killed = FALSE
    /\ schema = <<>>
    /\ methods = <<>>
    /\ calls = <<>>
    /\ mq = <<>>
    /\ inflight = <<>>
    /\ written = <<>>
    /\ needDrain = FALSE
    /\ exits = 0
    /\ errors = 0
    /\ construction = "pending"
    /\ buffer = <<>>
    /\ cform \in {"send", "peer", "raw", "error", "bare"}
    /\ cname \in CASE cform = "raw" -> {N_exit}
                  [] cform \in {"error", "bare"} -> {N_error}
                  [] OTHER -> {N_exit, N_sleep}
    /\ cargs \in CASE cform = "raw" -> {<<>>}
                  [] cform = "error" -> ErrorShapes
                  [] cform = "bare" -> {<<JStr(<<"a", SP, "b">>)>>}
                  [] OTHER -> ArgLists(MaxArgs)
    /\ sent = <<>> /\ wire = <<>> /\ nchunks = 0 /\ emitted = <<>>
    /\ ShellReturned

\* the record is encoded
Encode ==
    /\ sent = <<>>
    /\ sent' \in CASE cform = "send" -> {SendLine(cname, cargs)}
                   [] cform \in {"peer", "error"} -> {PlainLine(cname, cargs)}
                   [] cform = "bare" -> {cname \o <<TAB>> \o cargs[1].a \o <<NL>>}
                   [] OTHER -> {l \o <<NL>> : l \in RawLines(MaxLine) \ {<<>>}}
    /\ wire' = sent'
    /\ UNCHANGED <<clientVars, buffer, cname, cargs, cform, nchunks, emitted, shellVars>>

\* a 'data' event with the next n characters of the line; the last chunk
\* allowed takes all that is left
Feed(n) ==
    /\ wire # <<>>
    /\ nchunks < MaxChunks
    /\ n \in 1..Len(wire)
    /\ nchunks = MaxChunks - 1 => n = Len(wire)
    /\ LET d == DataHandler(buffer, SubSeq(wire, 1, n))
       IN  /\ emitted' = emitted \o d.emitted
           /\ buffer' = d.buffer
    /\ wire' = SubSeq(wire, n + 1, Len(wire))
    /\ nchunks' = nchunks + 1
    /\ UNCHANGED <<clientVars, cname, cargs, cform, sent, shellVars>>

NextCodec ==
    \/ Encode
    \/ \E n \in 1..(Len(wire) + 1) : Feed(n)

SpecCodec == InitCodec /\ [][NextCodec]_vars

(***************************************************************************)
(* The claims.                                                             *)
(***************************************************************************)
Calls == 1..Len(calls)
Plain(c) == calls[c].action \notin {N_exit, N_isConnected}

\* nothing is ready to run and the transport has had its last event
Quiet == phase = "closed" /\ mq = <<>>

\* the call has an argument its declared parameter type does not admit
HasInvalidArgument(c) ==
    \E i \in 1..Len(PeerParams(calls[c].action)) :
        /\ i <= Len(calls[c].args)
        /\ calls[c].args[i].k # "null"
        /\ isIncorrectPrimitive(NewItem(PeerParams(calls[c].action)[i][2], "type"),
                                calls[c].args[i])

\* every argument of the call was checked against its declared type's
\* registry entry, and passed
Validated(c) ==
    \A i \in 1..Len(PeerParams(calls[c].action)) :
        \E t \in 1..Len(calls[c].tasks) :
            /\ calls[c].tasks[t].par = 0
            /\ calls[c].tasks[t].ptype = PeerParams(calls[c].action)[i][2]
            /\ calls[c].tasks[t].val = Arg(calls[c].args, i)
            /\ calls[c].tasks[t].cap # "none"
            /\ calls[c].tasks[t].st = "ok"

\* C1: a record fed to the 'data' handler in two chunks, cut at any
\* position, is emitted exactly once, with the name and the arguments it has
\* when its line is fed in one chunk.
C1_SplitFeedEqualsWholeFeed ==
    sent # <<>> /\ wire = <<>> =>
        /\ Len(emitted) = 1
        /\ emitted = DataHandler(<<>>, sent).emitted

\* C2: decoding the line send writes for a name and an argument list gives
\* a record with exactly that name and exactly that argument list.
C2_CodecRoundTrip ==
    cform = "send" /\ sent # <<>> /\ wire = <<>> /\ nchunks = 1 =>
        emitted = <<[name |-> cname, args |-> cargs]>>

C4_ClosedIsConnected ==
    \A c \in Calls :
        calls[c].afterClose /\ calls[c].action = N_isConnected =>
            /\ ~calls[c].wrote
            /\ ~calls[c].asked
            /\ calls[c].notified
            /\ calls[c].result = "resolved"

\* C5: exit invoked after the transport has closed resolves at once: it
\* writes no line and waits for no further event.
C5_ClosedExit ==
    \A c \in Calls :
        calls[c].afterClose /\ calls[c].action = N_exit =>
            /\ ~calls[c].wrote
            /\ ~calls[c].asked
            /\ calls[c].result = "resolved"

\* C6: a call whose argument count is checked while the transport is open
\* and differs from the action's declared parameter count is rejected, and
\* its action line is never written.
C6_ArgumentCountRejected ==
    \A c \in Calls :
        /\ calls[c].checked = "open"
        /\ Len(calls[c].args) # Len(PeerParams(calls[c].action))
        => calls[c].result = "rejected" /\ ~calls[c].wrote

\* C6 case: a call with the wrong number of arguments was checked on the
\* open transport and rejected.
C6_Witness ==
    \E c \in Calls :
        /\ calls[c].checked = "open"
        /\ Len(calls[c].args) # Len(PeerParams(calls[c].action))
        /\ calls[c].result = "rejected"
        /\ phase = "open"

C8_CloseSettlesCalls ==
    Quiet =>
        \A c \in Calls :
            calls[c].atClose =>
                /\ calls[c].result # "pending"
                /\ Plain(c) => calls[c].result = "rejected"

\* C9: the client emits 'exit' at most once, and exactly once by the time
\* its transport has closed, for a socket and for a child process alike.
C9_ExitEmittedOnce ==
    /\ exits <= 1
    /\ phase \in {"exited", "closed"} => exits = 1

C11_NoRoomWaitsForDrain ==
    \A c \in Calls :
        calls[c].action # N_exit =>
            /\ calls[c].room = "no" /\ ~calls[c].drained =>
                    calls[c].pc = "drain" /\ calls[c].result = "pending"
            /\ calls[c].room = "yes" => calls[c].pc # "drain" /\ ~calls[c].drained

\* C11 case: one call was written without room and resolved after the
\* 'drain' event, another was written with room and resolved without one.
C11_Witness ==
    /\ \E c \in Calls :
          /\ calls[c].action # N_exit
          /\ calls[c].room = "no"
          /\ calls[c].drained
          /\ calls[c].result = "resolved"
    /\ \E c \in Calls :
          /\ calls[c].action # N_exit
          /\ calls[c].room = "yes"
          /\ calls[c].result = "resolved"

(***************************************************************************)
(* createShell on its own: one step for each of its awaits.                *)
(***************************************************************************)
InitShell ==
    /\ kind = "socket"
    /\ phase = "open"
    /\ destroyed = FALSE
    /\ killed = FALSE
    /\ schema = <<>>
    /\ methods = <<>>
    /\ calls = <<>>
    /\ mq = <<>>
    /\ inflight = <<>>
    /\ written = <<>>
    /\ needDrain = FALSE
    /\ exits = 0
    /\ errors = 0
    /\ construction = "pending"
    /\ buffer = <<>>
    /\ cname = <<>> /\ cargs = <<>> /\ cform = "none"
    /\ sent = <<>> /\ wire = <<>> /\ nchunks = 0 /\ emitted = <<>>
    /\ settings \in SettingsSpace
    /\ spc = "tws_port"
    /\ tws_port = 0 /\ json_port = 0 /\ inused = 0
    /\ tried = <<>>
    /\ outcome = "none"
    /\ found = FALSE
    /\ launches = 0
    /\ ms = FirstDelay /\ clock = 0

ShellFrame == UNCHANGED <<clientVars, codecVars, buffer>>

\* line 167: tws_port, with the scan of tws_ports when no port and no host is set
TwsPort ==
    /\ spc = "tws_port"
    /\ \E r \in (IF settings.twsApiPort # 0 THEN {settings.twsApiPort}
                 ELSE IF ~settings.twsApiHost THEN ScanResults(tws_ports)
                 ELSE {0}) :
          /\ tws_port' = r
          /\ found' = (settings.twsApiPort = 0 /\ r # 0)
    /\ spc' = "json_port"
    /\ UNCHANGED <<settings, json_port, inused, tried, outcome, launches, ms, clock>>
    /\ ShellFrame

\* lines 171-172: json_port, with the scan of json_ports when it comes to it
JsonPort ==
    /\ spc = "json_port"
    /\ \E r \in (IF settings.jsonApiPort # 0 THEN {settings.jsonApiPort}
                 ELSE IF settings.twsApiPort # 0 THEN {json_port_offset + settings.twsApiPort}
                 ELSE IF ~settings.jsonApiHost THEN ScanResults(json_ports)
                 ELSE {0}) :
          json_port' = r
    /\ spc' = IF json_port' # 0 THEN "dial" ELSE "decide"
    /\ UNCHANGED <<settings, tws_port, inused, tried, outcome, found, launches, ms, clock>>
    /\ ShellFrame

\* lines 175-176 and 183-184: openSocket(json_host, json_port) connects or not
Dial(connected) ==
    /\ spc \in {"dial", "redial"}
    /\ tried' = Append(tried, "dial")
    /\ IF connected
       THEN spc' = "done" /\ outcome' = "socket"
       ELSE spc' = (IF spc = "dial" THEN "decide" ELSE "spawn") /\ outcome' = outcome
    /\ UNCHANGED <<settings, tws_port, json_port, inused, found, launches, ms, clock>>
    /\ ShellFrame

\* lines 178-181 and 189-202: after the first dial, the branch taken; the
\* scan of [tws_port] when no TWS host is set
Decide ==
    /\ spc = "decide"
    /\ IF StandAloneBranch
       THEN \E r \in (IF tws_host THEN {0} ELSE ScanResults(<<tws_port>>)) :
               /\ inused' = r
               /\ found' = (r # 0)
               /\ spc' = IF tws_host \/ r # 0
                         THEN (IF json_port # 0 THEN "redial" ELSE "spawn")
                         ELSE "branch"
       ELSE spc' = "branch" /\ UNCHANGED <<inused, found>>
    /\ UNCHANGED <<settings, tws_port, json_port, tried, outcome, launches, ms, clock>>
    /\ ShellFrame

\* line 186: return standAloneJsonShell(tws_port, settings)
Spawn ==
    /\ spc = "spawn"
    /\ tried' = Append(tried, "spawn")
    /\ spc' = "done"
    /\ outcome' = "process"
    /\ UNCHANGED <<settings, tws_port, json_port, inused, found, launches, ms, clock>>
    /\ ShellFrame

\* lines 189-202: launchTws, or one of the two errors
Branch ==
    /\ spc = "branch"
    /\ IF MayLaunch
       THEN /\ tried' = Append(tried, "launch")
            /\ launches' = launches + 1
            /\ spc' = "wait"
            /\ outcome' = outcome
       ELSE /\ spc' = "done"
            /\ outcome' = IF json_port # 0 THEN "could not connect" ELSE "no TWS API"
            /\ UNCHANGED <<tried, launches>>
    /\ ms' = FirstDelay
    /\ clock' = 0
    /\ UNCHANGED <<settings, tws_port, json_port, inused, found>>
    /\ ShellFrame

\* a loop of waitForLocalPorts whose delay stays what it was
PollSteady ==
    /\ spc = "wait"
    /\ IF clock < PollTimeout
       THEN /\ ms' = ms
            /\ clock' = clock + ms'
            /\ \E port \in ScanResults(json_ports) :
                  IF port # 0
                  THEN /\ settings' = [settings EXCEPT !.noLaunch = TRUE]
                       /\ spc' = "tws_port"
                       /\ tws_port' = 0 /\ json_port' = 0 /\ inused' = 0
                       /\ found' = FALSE
                  ELSE UNCHANGED <<settings, spc, tws_port, json_port, inused, found>>
            /\ outcome' = outcome
       ELSE /\ spc' = "done"
            /\ outcome' = "could not launch"
            /\ UNCHANGED <<settings, tws_port, json_port, inused, found, ms, clock>>
    /\ UNCHANGED <<tried, launches>>
    /\ ShellFrame

\* one turn of the loop of waitForLocalPorts (lines 253-262) and, when the
\* loop is left, lines 193-197: createShell again with noLaunch, or the error
Poll ==
    /\ spc = "wait"
    /\ IF clock < PollTimeout
       THEN /\ ms' = ms + ms
            /\ clock' = clock + ms'
            /\ \E port \in ScanResults(json_ports) :
                  IF port # 0
                  THEN /\ settings' = [settings EXCEPT !.noLaunch = TRUE]
                       /\ spc' = "tws_port"
                       /\ tws_port' = 0 /\ json_port' = 0 /\ inused' = 0
                       /\ found' = FALSE
                  ELSE UNCHANGED <<settings, spc, tws_port, json_port, inused, found>>
            /\ outcome' = outcome
       ELSE /\ spc' = "done"
            /\ outcome' = "could not launch"
            /\ UNCHANGED <<settings, tws_port, json_port, inused, found, ms, clock>>
    /\ UNCHANGED <<tried, launches>>
    /\ ShellFrame

NextShell ==
    \/ TwsPort
    \/ JsonPort
    \/ \E connected \in BOOLEAN : Dial(connected)
    \/ Decide
    \/ Spawn
    \/ Branch
    \/ Poll

SpecShell == InitShell /\ [][NextShell]_vars

\* the last connection method attempted
LastTried == IF tried = <<>> THEN "none" ELSE tried[Len(tried)]

\* C12 as stated: a spawn follows only a local port found in use, the launch
\* and the errors come only when no local port was found in use, and no
\* method is attempted after one has connected.
C12_FallbackOrder ==
    /\ \A i \in 1..Len(tried) : tried[i] = "spawn" => i = Len(tried) /\ found
    /\ spc \in {"branch", "wait"} => ~found
    /\ outcome = "socket" => LastTried = "dial"
    /\ outcome = "process" => LastTried = "spawn"

\* C12 amended: the socket is dialed first whenever a JSON port is known;
\* the stand-alone client is spawned last, and exactly when a TWS port is
\* known, no JSON port is configured, and a TWS host is configured or the
\* TWS port was found in use; the launch comes only when that is not so and
\* launching is permitted, the errors only when it is not permitted; and no
\* method is attempted after one has connected.
C12_FallbackOrderAsCoded ==
    LET standAlone ==
            tws_port # 0 /\ settings.jsonApiPort = 0 /\ (settings.twsApiHost \/ inused # 0)
        permitted ==
            /\ ~settings.noLaunch /\ ~settings.interactive /\ ~settings.noPrompt
            /\ ~settings.jsonApiHost /\ ~settings.twsApiHost
    IN  /\ \A i \in 1..Len(tried) : tried[i] = "spawn" => i = Len(tried) /\ standAlone
        /\ spc \in {"spawn", "redial"} => standAlone
        /\ spc \in {"branch", "wait"} => ~standAlone
        /\ spc \in {"spawn", "branch"} /\ json_port # 0 => LastTried = "dial"
        /\ spc = "wait" => permitted /\ LastTried = "launch"
        /\ outcome \in {"could not connect", "no TWS API"} => ~permitted
        /\ outcome = "socket" => LastTried = "dial" /\ spc = "done"
        /\ outcome = "process" => LastTried = "spawn" /\ spc = "done"

\* C12 case: the dial failed, the TWS port was found in use, the second
\* dial failed too and the stand-alone client was spawned.
C12_Witness ==
    /\ tried = <<"dial", "dial", "spawn">>
    /\ inused # 0
    /\ outcome = "process"

\* a record named helpEnd has been emitted
HelpEndEmitted == \E i \in 1..Len(emitted) : emitted[i].name = N_helpEnd

\* C13: the first line written is help with no arguments; construction is
\* resolved, and a method of the client is called, only after a helpEnd
\* record has been received.
C13_BootstrapHandshake ==
    /\ written # <<>> /\ written[1] = [name |-> N_help, args |-> <<>>]
    /\ construction = "resolved" => HelpEndEmitted
    /\ calls # <<>> => HelpEndEmitted

\* C13 case: the helpEnd record arrived, construction resolved and the
\* caller called a method.
C13_Witness ==
    /\ HelpEndEmitted
    /\ construction = "resolved"
    /\ calls # <<>>
    /\ Len(written) > 1

\* C14: once a complete line of the peer has arrived, in however many
\* chunks, the records emitted are exactly the record of that line, once,
\* with the name and the arguments the line holds.
C14_LineEmittedOnce ==
    cform = "peer" /\ sent # <<>> /\ wire = <<>> =>
        emitted = <<emit_line(SubSeq(sent, 1, Len(sent) - 1))>>

\* C15: the line send writes is the name, a tab, the JSON texts of the
\* arguments joined by single tabs, and a newline, so that after the name
\* it has as many tab-separated fields as the call has arguments.
C15_SendLineFormat ==
    cform = "send" /\ sent # <<>> =>
        /\ sent = cname \o <<TAB>>
                    \o Join([i \in 1..Len(cargs) |-> JSONstringify(cargs[i])], TAB) \o <<NL>>
        /\ cargs # <<>> =>
              Len(Split(SubSeq(sent, Len(cname) + 2, Len(sent) - 1), TAB)) = Len(cargs)

\* C16: a complete inbound line, fed whole, is emitted as the record whose
\* name is the text before the line's first tab and whose arguments are the
\* remaining tab-separated fields in order, each parsed as JSON or, failing
\* that, kept as the raw string.
C16_FieldsByTab ==
    sent # <<>> /\ wire = <<>> /\ nchunks = 1 =>
        LET fields == Split(SubSeq(sent, 1, Len(sent) - 1), TAB)
        IN  emitted = <<[name |-> fields[1],
                         args |-> [i \in 1..(Len(fields) - 1) |->
                                      JSONparseOrRaw(fields[i + 1])]]>>

(***************************************************************************)
(* Validation on its own: a client whose registry has learnt an action     *)
(* with one parameter and every type the parameter's type leads to, on an  *)
(* open transport.  One call is made with one argument and runs to its     *)
(* end.  The types are those of the peer's documentation: Contract with    *)
(* the properties conid (int, default 0) and right (Right, default         *)
(* "None"), and the enumeration Right with the values "None" and "Put".    *)
(***************************************************************************)
N_Contract == <<"C", "o", "n", "t", "r", "a", "c", "t">>
N_conid == <<"c", "o", "n", "i", "d">>
N_right == <<"r", "i", "g", "h", "t">>
N_Right == <<"R", "i", "g", "h", "t">>
N_None == <<"N", "o", "n", "e">>
N_none == <<"n", "o", "n", "e">>
N_Put == <<"P", "u", "t">>
N_foo == <<"f", "o", "o">>
N_ContractDetails == N_Contract \o <<"D", "e", "t", "a", "i", "l", "s">>
N_contract == <<"c", "o", "n", "t", "r", "a", "c", "t">>

\* the declared type of the parameter
ParamTypes ==
    {N_int, N_Integer, N_long, N_Long, N_Right, N_Contract, N_ContractDetails,
     <<"[">> \o N_int \o <<"]">>, <<"[">> \o N_Right \o <<"]">>, <<"[">> \o N_Contract \o <<"]">>}

\* the records the peer answers help "name" with, for a type and the types
\* its properties lead to
RECURSIVE TypeRecords(_)
TypeRecords(name) ==
    CASE name = N_ContractDetails ->
            <<[name |-> N_help, args |-> <<JStr(N_ContractDetails), JStr(N_contract), JStr(N_Contract), JNull>>],
              [name |-> N_helpEnd, args |-> <<JStr(N_ContractDetails)>>]>>
            \o TypeRecords(N_Contract)
      [] name = N_Contract ->
            <<[name |-> N_help, args |-> <<JStr(N_Contract), JStr(N_conid), JStr(N_int), JNum(<<"0">>)>>],
              [name |-> N_help, args |-> <<JStr(N_Contract), JStr(N_right), JStr(N_Right), JStr(N_None)>>],
              [name |-> N_helpEnd, args |-> <<JStr(N_Contract)>>]>>
            \o TypeRecords(N_int) \o TypeRecords(N_Right)
      [] name = N_Right ->
            <<[name |-> N_help, args |-> <<JStr(N_Right), JStr(N_None)>>],
              [name |-> N_help, args |-> <<JStr(N_Right), JStr(N_Put)>>],
              [name |-> N_helpEnd, args |-> <<JStr(N_Right)>>]>>
      [] OTHER -> <<[name |-> N_helpEnd, args |-> <<JStr(name)>>]>>

\* everything the client has emitted: the bootstrap, the action sleep with
\* its one parameter of the given type, and the types
LearntRecords(param_type) ==
    <<[name |-> N_help, args |-> <<JStr(N_actions), JStr(N_Shell)>>],
      [name |-> N_help, args |-> <<JStr(N_Shell), JStr(N_sleep)>>],
      [name |-> N_helpEnd, args |-> <<>>],
      [name |-> N_help, args |-> <<JStr(N_sleep), JStr(N_ms), JStr(param_type), JNull>>],
      [name |-> N_helpEnd, args |-> <<JStr(N_sleep)>>]>>
    \o TypeRecords(ItemName(param_type))

\* the texts of at most n characters over digits, a point, a sign, a space
\* and a letter
RECURSIVE NumberTexts(_)
NumberTexts(n) ==
    IF n = 0 THEN {<<>>}
    ELSE NumberTexts(n - 1) \cup {Append(l, x) : l \in {k \in NumberTexts(n - 1) : Len(k) = n - 1},
                                                  x \in {"0", "1", ".", "-", SP, "b"}}

\* the argument of the call
ParamValues ==
    {JStr(text) : text \in NumberTexts(MaxText)} \cup
    {JNum(<<"1", ".", "5">>), JNum(<<"-", "1">>), JBool(TRUE), JBool(FALSE)} \cup
    {JNull, JNum(<<"1">>), JStr(N_None), JStr(N_none), JStr(N_two),
     JObj(<<>>, <<>>),
     JObj(<<N_conid>>, <<JNum(<<"1">>)>>),
     JObj(<<N_conid, N_foo>>, <<JNum(<<"1">>), JStr(N_two)>>),
     JObj(<<N_foo>>, <<JNum(<<"1">>)>>),
     JObj(<<N_right>>, <<JStr(N_Put)>>),
     JObj(<<N_right>>, <<JStr(N_two)>>),
     JObj(<<N_right>>, <<JNull>>),
     JObj(<<N_conid>>, <<JStr(N_two)>>),
     JObj(<<N_contract>>, <<JNum(<<"1">>)>>),
     JObj(<<N_contract>>, <<JObj(<<N_conid>>, <<JNum(<<"1">>)>>)>>),
     JObj(<<N_contract>>, <<JObj(<<N_conid>>, <<JStr(N_two)>>)>>),
     JObj(<<N_contract>>, <<JObj(<<N_conid, N_right>>, <<JNum(<<"1">>), JStr(N_none)>>)>>),
     JArr(<<>>),
     JArr(<<JNum(<<"1">>)>>),
     JArr(<<JNum(<<"1">>), JStr(N_two)>>),
     JArr(<<JStr(N_two), JNum(<<"1">>)>>),
     JArr(<<JStr(N_None), JStr(N_Put)>>),
     JArr(<<JNull>>),
     JArr(<<JObj(<<N_conid>>, <<JNum(<<"1">>)>>)>>),
     JArr(<<JObj(<<>>, <<>>), JObj(<<N_foo>>, <<JNum(<<"1">>)>>)>>)}

InitType ==
    /\ kind = "socket"
    /\ phase = "open"
    /\ destroyed = FALSE
    /\ killed = FALSE
    /\ \E param_type \in ParamTypes :
          LET w == EmitAll([schema |-> <<>>, methods |-> <<>>, calls |-> <<>>, mq |-> <<>>,
                            inflight |-> <<>>, written |-> <<>>, needDrain |-> FALSE,
                            errors |-> 0, construction |-> "pending", threw |-> FALSE,
                            errorOnce |-> TRUE],
                           LearntRecords(param_type))
          IN  /\ schema = w.schema
              /\ methods = w.methods
              /\ construction = w.construction
    /\ calls = <<>>
    /\ mq = <<>>
    /\ inflight = <<>>
    /\ written = <<>>
    /\ needDrain = FALSE
    /\ exits = 0
    /\ errors = 0
    /\ buffer = <<>>
    /\ cname = <<>> /\ cargs = <<>> /\ cform = "none"
    /\ sent = <<>> /\ wire = <<>> /\ nchunks = 0 /\ emitted = <<>>
    /\ ShellReturned

\* the one call: self.sleep(value)
Validate(value) ==
    /\ calls = <<>>
    /\ Invoke(N_sleep, <<value>>)

NextType ==
    \/ \E value \in ParamValues : Validate(value)
    \/ \E room \in BOOLEAN : Resume(room)
    \/ Drain

SpecType == InitType /\ [][NextType]_vars

\* the runs of assertType of a call, and the registry entry a run validates against
Runs(c) == 1..Len(calls[c].tasks)
RunType(c, t) == GetItem(schema, ItemName(calls[c].tasks[t].ptype))

\* C17: a run of assertType on null or undefined returns, whatever the
\* declared type is: a primitive, an enumeration, an object or an array type.
C17_NullAccepted ==
    \A c \in Calls : \A t \in Runs(c) :
        calls[c].tasks[t].val = JNull /\ calls[c].tasks[t].st # "wait" =>
            /\ calls[c].tasks[t].st = "ok"
            /\ calls[c].tasks[t].par = 0 => calls[c].result # "rejected"

\* C18: a run of assertType on an object with a key its object type does not
\* declare throws, the call it belongs to is rejected, and the example of
\* the failure has exactly the declared names, each with the value's entry
\* when the value has one and with the declared default otherwise.
C18_UndeclaredKeyRejected ==
    \A c \in Calls : \A t \in Runs(c) :
        LET task == calls[c].tasks[t]
            type == RunType(c, t)
            declared == {type.object_properties[i][1] : i \in 1..Len(type.object_properties)}
            entry(names, vals, name) == vals[CHOOSE i \in 1..Len(names) : names[i] = name]
            default(name) ==
                type.object_values[CHOOSE i \in 1..Len(type.object_values) :
                                      type.object_values[i][1] = name][2]
        IN  /\ ~IsArrayType(task.ptype)
            /\ declared # {}
            /\ task.val.k = "obj"
            /\ \E i \in 1..Len(task.val.n) : task.val.n[i] \notin declared
            /\ task.st # "wait"
            =>  /\ task.st = "fail"
                /\ calls[c].result = "rejected"
                /\ task.example.k = "obj"
                /\ {task.example.n[i] : i \in 1..Len(task.example.n)} = declared
                /\ \A name \in declared :
                      entry(task.example.n, task.example.e, name) =
                          IF \E i \in 1..Len(task.val.n) : task.val.n[i] = name
                          THEN entry(task.val.n, task.val.e, name)
                          ELSE default(name)

\* C18 witness: the call sleep({conid: 1, foo: "two"}) against Contract was
\* rejected with the example {conid: 1, right: "None"}.
C18_Witness ==
    \E c \in Calls : \E t \in Runs(c) :
        /\ calls[c].tasks[t].ptype = N_Contract
        /\ calls[c].tasks[t].val = JObj(<<N_conid, N_foo>>, <<JNum(<<"1">>), JStr(N_two)>>)
        /\ calls[c].tasks[t].st = "fail"
        /\ calls[c].tasks[t].example = JObj(<<N_conid, N_right>>, <<JNum(<<"1">>), JStr(N_None)>>)
        /\ calls[c].result = "rejected"

\* C19: a run of assertType on a value that is not null against a type with
\* enumeration values returns exactly when the value is one of the values,
\* letter for letter, and throws for every other value.
C19_EnumMembership ==
    \A c \in Calls : \A t \in Runs(c) :
        LET task == calls[c].tasks[t]
            type == RunType(c, t)
        IN  /\ ~IsArrayType(task.ptype)
            /\ Len(type.values) > 0
            /\ task.val # JNull
            /\ task.st # "wait"
            =>  /\ task.st \in {"ok", "fail"}
                /\ task.st = "ok" <=> \E i \in 1..Len(type.values) : type.values[i] = task.val
                /\ task.par = 0 /\ task.st = "fail" => calls[c].result = "rejected"

\* C19 witness: "None" was accepted as a Right and the call went on to write
\* its line.
C19_Witness ==
    \E c \in Calls : \E t \in Runs(c) :
        /\ calls[c].tasks[t].ptype = N_Right
        /\ calls[c].tasks[t].val = JStr(N_None)
        /\ calls[c].tasks[t].st = "ok"
        /\ calls[c].wrote

\* C20: a run of assertType against an array type throws for a value that is
\* neither null nor an array, and for an array it returns exactly when the
\* run on every element against the element type returned.
C20_ArrayElements ==
    \A c \in Calls : \A t \in Runs(c) :
        LET task == calls[c].tasks[t]
            accepted(value) ==
                \E u \in Runs(c) :
                    /\ calls[c].tasks[u].par = t
                    /\ calls[c].tasks[u].ptype = ItemName(task.ptype)
                    /\ calls[c].tasks[u].val = value
                    /\ calls[c].tasks[u].st = "ok"
        IN  IsArrayType(task.ptype) /\ task.st \in {"ok", "fail"} =>
                /\ task.val.k \notin {"arr", "null"} => task.st = "fail"
                /\ task.val.k = "arr" =>
                      (task.st = "ok" <=> \A i \in 1..Len(task.val.e) : accepted(task.val.e[i]))

\* C20 witness: an array of two elements was validated element by element and
\* rejected for its second element.
C20_Witness ==
    \E c \in Calls : \E t \in Runs(c) : \E u, v \in Runs(c) :
        /\ IsArrayType(calls[c].tasks[t].ptype)
        /\ Len(calls[c].tasks[t].val.e) = 2
        /\ calls[c].tasks[u].par = t /\ calls[c].tasks[u].st = "ok"
        /\ calls[c].tasks[v].par = t /\ calls[c].tasks[v].st = "fail"
        /\ calls[c].tasks[t].st = "fail"
        /\ calls[c].result = "rejected"

\* a value violates a declared type: a value that is not null and not an
\* object for a type with declared fields, a value that is not null and not
\* listed for an enumeration, a wrong primitive, or an object one of whose
\* declared fields holds a violating value
RECURSIVE Violates(_, _)
Violates(param_type, value) ==
    LET type == GetItem(schema, param_type)
        names == PropertyNames(type)
    IN  IF Len(type.values) > 0
        THEN value # JNull /\ ~InSeq(value, type.values)
        ELSE IF names # <<>>
        THEN \/ value.k \in {"num", "str", "bool"}
             \/ /\ value.k = "obj"
                /\ \E i \in 1..Len(value.n) :
                      /\ InSeq(value.n[i], names)
                      /\ Violates(PropertyType(type, value.n[i]), value.e[i])
        ELSE value # JNull /\ isIncorrectPrimitive(type, value)

\* C21: when nothing is left to run, a call whose object argument has, at
\* any depth, a declared field with a value that violates the field's type
\* has been rejected and has written no line.
C21_NestedViolationRejected ==
    mq = <<>> =>
        \A c \in Calls :
            LET param_type == GetItem(schema, calls[c].action).param_types[1]
            IN  /\ calls[c].args[1].k = "obj"
                /\ ~IsArrayType(param_type)
                /\ Violates(param_type, calls[c].args[1])
                =>  calls[c].result = "rejected" /\ ~calls[c].wrote

\* C21 witness: sleep({contract: {conid: "two"}}) against ContractDetails,
\* whose field contract is a Contract whose field conid is an int, was
\* rejected.
C21_Witness ==
    \E c \in Calls :
        /\ GetItem(schema, calls[c].action).param_types = <<N_ContractDetails>>
        /\ calls[c].args = <<JObj(<<N_contract>>, <<JObj(<<N_conid>>, <<JStr(N_two)>>)>>)>>
        /\ calls[c].result = "rejected"
        /\ \E t \in Runs(c) : calls[c].tasks[t].ptype = N_int /\ calls[c].tasks[t].st = "fail"

\* the text is a numeral whose value is an integer: between optional white
\* space, an optional sign, then digits, optionally followed by a point and
\* zeros only, with at least one digit in all
IntegerNumeral(text) ==
    LET t == Trim(text)
        body == IF t # <<>> /\ t[1] \in {"-", "+"} THEN Tail(t) ELSE t
    IN  \E d \in 0..Len(body) :
            /\ \A i \in 1..d : IsDigit(body[i])
            /\ \/ d = Len(body) /\ d >= 1
               \/ /\ d < Len(body)
                  /\ body[d + 1] = "."
                  /\ \A i \in (d + 2)..Len(body) : body[i] = "0"
                  /\ Len(body) >= 2

LocalFailure(cs, c) ==
    /\ cs[c].result = "rejected"
    /\ \/ cs[c].checked = "open" /\ Len(cs[c].args) # Len(PeerParams(cs[c].action))
       \/ \E t \in 1..Len(cs[c].tasks) : cs[c].tasks[t].st = "fail"

\* C23: a call that failed locally has written no line; the step in which
\* it fails leaves the transport as it was; and once an open transport has
\* nothing more to deliver, every call with the declared number of
\* admissible arguments has written its line and is resolved (an exit
\* awaits the close), whatever other calls failed meanwhile.
C23_LocalFailureIsLocal ==
    /\ [](\A c \in Calls : LocalFailure(calls, c) => ~calls[c].wrote)
    /\ [](phase = "open" /\ mq = <<>> /\ inflight = <<>> /\ ~needDrain =>
            \A c \in Calls :
                Len(calls[c].args) = Len(PeerParams(calls[c].action)) /\ ~HasInvalidArgument(c)
                =>  /\ calls[c].wrote
                    /\ IF calls[c].action = N_exit
                       THEN calls[c].pc = "close" /\ calls[c].result = "pending"
                       ELSE calls[c].result = "resolved")
    /\ [][(\E c \in Calls : LocalFailure(calls', c) /\ ~LocalFailure(calls, c))
            => UNCHANGED <<kind, phase, destroyed, killed, exits, written>>]_vars

\* C23 witness: the second call has failed locally while the first, made
\* before it with an admissible argument, is still pending on the open
\* transport.
C23_Witness ==
    /\ Len(calls) = 2
    /\ phase = "open"
    /\ LocalFailure(calls, 2)
    /\ calls[1].action = N_sleep /\ calls[1].args = <<JNum(<<"1">>)>>
    /\ calls[1].result = "pending"
    /\ calls[1].pc \in {"validate", "send"}

(***************************************************************************)
(* The client with transport errors: the shell's 'error' event, which a    *)
(* socket emits when it fails, destroying itself, and which                *)
(* standAloneJsonShell re-emits for a failure of the child's stdin, stdout *)
(* or stderr stream (lines 236, 239, 242), the child staying as it is.     *)
(***************************************************************************)
\* onerror (line 42): self.emit('error', err), which rejects a pending
\* construction (line 153)
TransportError ==
    /\ mq = <<>>
    /\ errors < MaxErrors
    /\ IF kind = "socket" THEN phase = "open" ELSE phase \in {"open", "closing", "exited"}
    /\ errors' = errors + 1
    /\ construction' = IF construction = "pending" /\ ErrorListenerAttached
                       THEN "rejected" ELSE construction
    /\ destroyed' = (destroyed \/ kind = "socket")
    /\ phase' = IF kind = "socket" THEN "closing" ELSE phase
    /\ UNCHANGED <<kind, killed, schema, methods, calls, mq, inflight, written, needDrain,
                   exits, buffer, codecVars, shellVars>>

NextError ==
    \/ Next
    \/ TransportError

SpecError == Init /\ [][NextError]_vars

\* C24: the step of a transport error (an 'error' that no line of the peer
\* caused) emits 'error' and leaves no waiter queued on a registry entry, or
\* at least leaves the transport closing, so that the 'close' event resolves
\* the waiters.
C24_ErrorResolvesWaits ==
    [][errors' > errors /\ inflight' = inflight =>
          \/ \A i \in 1..Len(schema') : schema'[i].listeners = <<>>
          \/ phase' \in {"closing", "closed"}]_vars

\* C25: an error record of the peer, in each of its three shapes, is
\* emitted once as 'error' with exactly the fields that arrived, and the
\* transport is as open as it was.
C25_ErrorRecordDelivered ==
    cform \in {"error", "bare"} /\ sent # <<>> /\ wire = <<>> =>
        /\ emitted = <<[name |-> N_error, args |-> cargs]>>
        /\ phase = "open" /\ ~destroyed /\ ~killed /\ exits = 0

(***************************************************************************)
(* The client on one connection that stays open, with a peer that lists    *)
(* its help action (test/ib-tws-node.test.js lines 56-65 call it) and an   *)
(* action that takes a list and a number of the same element type.         *)
(***************************************************************************)
\* what the caller calls: help for an action, a type or the category, sleep, waitAll
HelpCalls ==
    {<<N_help, <<JStr(N_sleep)>> >>, <<N_help, <<JStr(N_int)>> >>, <<N_help, <<JStr(N_Shell)>> >>,
     <<N_help, <<JStr(N_EWrapper)>> >>,
     <<N_sleep, <<JNum(<<"1">>)>> >>,
     <<N_waitAll, <<JArr(<<JNum(<<"1">>)>>), JNum(<<"1">>)>> >>}

InitHelp ==
    /\ kind = "socket"
    /\ phase = "open"
    /\ destroyed = FALSE
    /\ killed = FALSE
    /\ schema = <<>>
    /\ methods = <<>>
    /\ calls = <<>>
    /\ mq = <<>>
    /\ inflight = <<PlainLine(N_help, <<JStr(N_actions), JStr(N_Shell)>>),
                    PlainLine(N_help, <<JStr(N_events), JStr(N_EWrapper)>>)>>
                  \o [i \in 1..Len(HelpPeerActions) |->
                         PlainLine(N_help, <<JStr(N_Shell), JStr(HelpPeerActions[i])>>)]
                  \o <<PlainLine(N_helpEnd, <<>>)>>
    /\ written = <<[name |-> N_help, args |-> <<>>]>>
    /\ needDrain = FALSE
    /\ exits = 0
    /\ errors = 0
    /\ construction = "pending"
    /\ buffer = <<>>
    /\ cname = <<>> /\ cargs = <<>> /\ cform = "none"
    /\ sent = <<>> /\ wire = <<>> /\ nchunks = 0 /\ emitted = <<>>
    /\ ShellReturned

NextHelp ==
    \/ \E call \in HelpCalls : Invoke(call[1], call[2])
    \/ Resume(TRUE)
    \/ Data

SpecHelp == InitHelp /\ [][NextHelp]_vars

\* the lines help "name" in what was written
HelpLines(name) ==
    {i \in 1..Len(written) : written[i] = [name |-> N_help, args |-> <<JStr(name)>>]}

\* the calls of the help action for the name that were sent
HelpSent(name) ==
    {c \in Calls : calls[c].action = N_help /\ calls[c].args = <<JStr(name)>> /\ calls[c].wrote}

\* the continuations that wait for completeItem
Waiting ==
    {<<c, 0>> : c \in {d \in Calls : calls[d].pc = "item"}}
    \cup UNION {{<<c, t>> : t \in {u \in Runs(c) : calls[c].tasks[u].st = "wait"}} : c \in Calls}

\* C27: on one connection the schema-ensure step writes at most one help
\* query for a registry entry, whichever calls and validations ask for it
\* and whether they name it plainly or as an array, and no waiter stays
\* queued on an entry whose helpEnd arrived: every continuation that waits
\* is queued on an incomplete entry or is resolved.
C27_OneHelpQuery ==
    /\ \A i \in 1..Len(schema) :
           /\ Cardinality(HelpLines(schema[i].name))
                  <= Cardinality(HelpSent(schema[i].name)) + 1
           /\ ~schema[i].requested =>
                  Cardinality(HelpLines(schema[i].name)) = Cardinality(HelpSent(schema[i].name))
           /\ schema[i].complete => schema[i].listeners = <<>>
    /\ \A waiter \in Waiting :
           \/ InSeq(waiter, mq)
           \/ \E i \in 1..Len(schema) : ~schema[i].complete /\ InSeq(waiter, schema[i].listeners)

\* C27: a list and a number of a call both waited for the entry int, one
\* help query for it was written, and its helpEnd resolved both
C27_Witness ==
    /\ \E c \in Calls :
           /\ calls[c].action = N_waitAll
           /\ InSeq(<<c, 1>>, mq) /\ InSeq(<<c, 2>>, mq)
    /\ GetItem(schema, N_int).complete
    /\ Cardinality(HelpLines(N_int)) = 1

\* the lines of what was written that name an action other than help
ActionLines == {i \in 1..Len(written) : written[i].name # N_help}

\* C28: until the transport has closed, every written line that names an
\* action A follows the one help query for A in what was written, and A's
\* descriptor is complete: A's first use wrote the query and waited for its
\* helpEnd, and no later use wrote another.
C28_HelpBeforeLine ==
    exits = 0 =>
        \A i \in ActionLines :
            /\ GetItem(schema, written[i].name).complete
            /\ \E j \in 1..(i - 1) : written[j] = [name |-> N_help, args |-> <<JStr(written[i].name)>>]
            /\ Cardinality(HelpLines(written[i].name))
                   <= Cardinality(HelpSent(written[i].name)) + 1

\* C28: sleep was used twice on an open transport: one help query for it,
\* then its two lines
C28_Witness ==
    /\ phase = "open"
    /\ Cardinality({i \in ActionLines : written[i].name = N_sleep}) = 2
    /\ Cardinality(HelpLines(N_sleep)) = 1

\* C29: the step in which an entry becomes complete (its helpEnd arrived)
\* appends the entry's waiters to the ready continuations in the order of
\* the list and leaves the list empty; until then a step only appends to the
\* list, so that the order of the list is the order of queueing.
C29_FifoResolve ==
    [][\A i \in 1..Len(schema) :
          LET after == GetItem(schema', schema[i].name)
          IN  HasItem(schema', schema[i].name) /\ ~schema[i].complete =>
                  IF after.complete
                  THEN mq' = mq \o schema[i].listeners /\ after.listeners = <<>>
                  ELSE /\ Len(after.listeners) >= Len(schema[i].listeners)
                       /\ SubSeq(after.listeners, 1, Len(schema[i].listeners))
                              = schema[i].listeners]_vars

\* C29: two calls of sleep waited for its entry, the first queued first,
\* and its helpEnd made their continuations ready in that order
C29_Witness ==
    /\ Len(calls) = 2
    /\ calls[1].action = N_sleep /\ calls[2].action = N_sleep
    /\ GetItem(schema, N_sleep).complete /\ GetItem(schema, N_sleep).listeners = <<>>
    /\ mq = << <<1, 0>>, <<2, 0>> >>

\* no flag of an entry that stays in the registry changes from true to false
FlagsKept ==
    \A i \in 1..Len(schema) :
        LET after == GetItem(schema', schema[i].name)
        IN  HasItem(schema', schema[i].name) =>
                /\ schema[i].requested => after.requested
                /\ schema[i].complete => after.complete

\* C30: on one connection no flag of a registry entry changes from true to
\* false, and no entry is complete while its requested flag is false.
C30_FlagOrder ==
    /\ [][FlagsKept]_vars
    /\ [](\A i \in 1..Len(schema) : schema[i].complete => schema[i].requested)

\* C30, as the code has it: on one connection no flag of a registry entry
\* changes from true to false, and an entry is complete while its requested
\* flag is false only if the caller asked the peer's help action about it:
\* the helpEnd of that answer completes the entry, requested or not.
C30_FlagOrderAsCoded ==
    /\ [][FlagsKept]_vars
    /\ [](\A i \in 1..Len(schema) :
             schema[i].complete /\ ~schema[i].requested => HelpSent(schema[i].name) # {})

\* C30: the entry help went through its three states, and the entry sleep,
\* which the caller asked help about, is complete without having been
\* requested
C30_Witness ==
    /\ GetItem(schema, N_help).requested /\ GetItem(schema, N_help).complete
    /\ GetItem(schema, N_sleep).complete /\ ~GetItem(schema, N_sleep).requested

\* the record the 'data' handler emitted in this step, if it is a help record
\* of two fields whose owner is a registered action category
Announced ==
    /\ Len(emitted') = Len(emitted) + 1
    /\ emitted'[Len(emitted')].name = N_help
    /\ Len(emitted'[Len(emitted')].args) = 2
    /\ HasItem(schema, emitted'[Len(emitted')].args[1].a)
    /\ GetItem(schema, emitted'[Len(emitted')].args[1].a).kind = "actions"

\* C26: after a help record without a type whose owner is a registered
\* action category, the registry holds an action descriptor under the
\* record's name and the client has a method of that name; a descriptor that
\* was there under the name is the one that is there afterwards, unchanged.
C26_ActionAnnounced ==
    [][Announced =>
          LET action_name == emitted'[Len(emitted')].args[2].a
          IN  /\ HasItem(schema', action_name)
              /\ GetItem(schema', action_name).kind = "action"
              /\ \E i \in 1..Len(methods') : methods'[i].name = action_name /\ methods'[i].live
              /\ HasItem(schema, action_name) =>
                     GetItem(schema', action_name) = GetItem(schema, action_name)]_vars

\* C26: sleep was announced again, by the answer to help "Shell", after a
\* call had requested and learnt its descriptor
C26_Witness ==
    /\ emitted # <<>>
    /\ emitted[Len(emitted)] = [name |-> N_help, args |-> <<JStr(N_Shell), JStr(N_sleep)>>]
    /\ GetItem(schema, N_sleep).requested /\ GetItem(schema, N_sleep).complete
    /\ GetItem(schema, N_sleep).param_types = <<N_int>>
    /\ HasMethod(N_sleep)

\* C31: once the 'close' handler has run, the registry has no entry, whatever
\* followed the close.
C31_RegistryEmptyAfterClose == exits > 0 => schema = <<>>

\* createShell with its steps taken as long as one is possible: each await
\* of createShell settles (a scan, a connection attempt and a timer end)
SpecShellFair == SpecShell /\ WF_vars(NextShell)

\* C32: launchTws is called at most once in one construction; after it the
\* attempt that is entered again has noLaunch set, so it dials, spawns or
\* throws; and createShell ends, with a shell or with an error.
C32_LaunchOnce ==
    /\ [](launches <= 1)
    /\ [](launches = 1 /\ spc # "wait" /\ outcome # "could not launch" => settings.noLaunch)
    /\ [](settings.noLaunch /\ spc = "done" /\ launches = 1 =>
             outcome \in {"socket", "process", "could not connect", "no TWS API"})
    /\ <>(spc = "done" /\ outcome # "none")

\* C32 case: TWS was launched, a port came up, and the attempt entered again
\* connected
C32_Witness ==
    /\ launches = 1
    /\ settings.noLaunch
    /\ spc = "done"
    /\ outcome \in {"socket", "process"}

\* C33: each turn of the loop of waitForLocalPorts waits twice the delay of
\* the turn before; the loop is left within the timeout only with a port
\* that answered, and createShell is entered again with noLaunch; it is
\* left after the timeout with 0, and createShell throws without another
\* attempt; and the loop is left.
C33_PollingEnds ==
    /\ [][spc = "wait" /\ spc' # "done" =>
             /\ clock < PollTimeout
             /\ ms' = 2 * ms /\ clock' = clock + ms'
             /\ tried' = tried /\ launches' = launches
             /\ spc' \in {"wait", "tws_port"}
             /\ spc' = "tws_port" => settings'.noLaunch]_vars
    /\ [][spc = "wait" /\ spc' = "done" =>
             /\ clock >= PollTimeout
             /\ outcome' = "could not launch"
             /\ tried' = tried /\ launches' = launches]_vars
    /\ [](outcome = "could not launch" => spc = "done" /\ LastTried = "launch")
    /\ (spc = "wait") ~> (spc # "wait")

\* C33 case: no port answered until the timeout had passed, after delays
\* of 2, 4 and 8 seconds, and createShell threw
C33_Witness ==
    /\ outcome = "could not launch"
    /\ spc = "done"
    /\ ms >= 8 * FirstDelay
    /\ clock >= PollTimeout
    /\ tried[Len(tried)] = "launch"

\* the record the 'data' handler emitted in this step, if it is a help record
\* of two fields whose owner is a registered event category
EventAnnounced ==
    /\ Len(emitted') = Len(emitted) + 1
    /\ emitted'[Len(emitted')].name = N_help
    /\ Len(emitted'[Len(emitted')].args) = 2
    /\ HasItem(schema, emitted'[Len(emitted')].args[1].a)
    /\ GetItem(schema, emitted'[Len(emitted')].args[1].a).kind = "events"

ValidationStep ==
    /\ emitted' = emitted
    /\ exits' = exits
    /\ \E c \in Calls : calls'[c].tasks # calls[c].tasks

\* C35: a step of validation leaves every registry entry as it was.
C35_ValidationReadsOnly == [][ValidationStep => schema' = schema]_vars

\* C35, as the code has it: a step of validation changes a registry entry
\* only as completeItem does: on an entry that is not complete it sets
\* requested and appends waiters to the list; the entry's fields, defaults,
\* values, parameters and complete flag, and the entries that are complete,
\* are as they were.
C35_ValidationOnlyEnsures ==
    [][ValidationStep =>
          /\ Len(schema') = Len(schema)
          /\ \A i \in 1..Len(schema) :
                 /\ schema'[i] = [schema[i] EXCEPT !.requested = schema'[i].requested,
                                                    !.listeners = schema'[i].listeners]
                 /\ schema[i].requested => schema'[i].requested
                 /\ Len(schema'[i].listeners) >= Len(schema[i].listeners)
                 /\ SubSeq(schema'[i].listeners, 1, Len(schema[i].listeners))
                        = schema[i].listeners
                 /\ schema[i].complete => schema'[i] = schema[i]]_vars

\* C35 case: the validation of a call of waitAll queued its two runs on the
\* entry int, which it found unrequested
C35_Witness ==
    \E c \in Calls :
        /\ calls[c].action = N_waitAll
        /\ GetItem(schema, N_int).requested /\ ~GetItem(schema, N_int).complete
        /\ GetItem(schema, N_int).listeners = << <<c, 1>>, <<c, 2>> >>

(***************************************************************************)
(* The construction of a client whose peer may write one error record      *)
(* among the lines of its first answer, and whose transport may fail or    *)
(* close at any time.                                                      *)
(***************************************************************************)
\* the error records of the peer: a string, an object (README lines 219-221)
BootErrors == {<<JStr(<<"a">>)>>, <<JObj(<<>>, <<>>)>>}

\* a help record with a type whose owner the peer has not announced
StrayHelp == PlainLine(N_help, <<JStr(N_waitAll), JStr(N_ms), JStr(N_int), JNull>>)

\* the answer to the first help, with or without an error record or a stray
\* help record in it
BootLines ==
    {PeerBootstrap}
    \cup {SubSeq(PeerBootstrap, 1, k) \o <<line>>
              \o SubSeq(PeerBootstrap, k + 1, Len(PeerBootstrap)) :
           k \in 0..Len(PeerBootstrap),
           line \in {PlainLine(N_error, args) : args \in BootErrors} \cup {StrayHelp}}

RECURSIVE EmittedUntilThrow(_, _)
\* the records lines.forEach emitted before a handler's throw ended it
EmittedUntilThrow(w, records) ==
    IF records = <<>> THEN <<>>
    ELSE <<Head(records)>>
         \o (IF EmitRecord(w, Head(records)).threw THEN <<>>
             ELSE EmittedUntilThrow(EmitRecord(w, Head(records)), Tail(records)))

\* a 'data' event with the next two lines of the peer in one chunk
DataCoalesced ==
    /\ mq = <<>>
    /\ Readable
    /\ Len(inflight) >= 2
    /\ LET chunk == inflight[1] \o inflight[2]
           w == OnData([World EXCEPT !.inflight = Tail(Tail(@))], chunk)
       IN  /\ Becomes([w EXCEPT !.threw = FALSE])
           /\ buffer' = IF w.threw THEN buffer ELSE DataHandler(buffer, chunk).buffer
           /\ emitted' = emitted \o EmittedUntilThrow(World, DataHandler(buffer, chunk).emitted)
    /\ UNCHANGED <<kind, phase, destroyed, killed, exits, shellVars,
                   cname, cargs, cform, sent, wire, nchunks>>

InitBoot ==
    /\ kind \in {"socket", "process"}
    /\ phase = "open"
    /\ destroyed = FALSE
    /\ killed = FALSE
    /\ schema = <<>>
    /\ methods = <<>>
    /\ calls = <<>>
    /\ mq = <<>>
    /\ inflight \in BootLines
    /\ written = <<[name |-> N_help, args |-> <<>>]>>
    /\ needDrain = FALSE
    /\ exits = 0
    /\ errors = 0
    /\ construction = "pending"
    /\ buffer = <<>>
    /\ cname = <<>> /\ cargs = <<>> /\ cform = "none"
    /\ sent = <<>> /\ wire = <<>> /\ nchunks = 0 /\ emitted = <<>>
    /\ ShellReturned

NextBoot ==
    \/ Data
    \/ DataCoalesced
    \/ TransportError
    \/ SocketClose
    \/ ProcessExit
    \/ NativeClose

SpecBoot == InitBoot /\ [][NextBoot]_vars

\* C36: the step in which the transport closes or emits an error object
\* while construction is pending, no helpEnd having arrived, rejects the
\* construction, and a rejected construction stays rejected.
C36_EarlyFailureRejects ==
    [][/\ construction = "pending" /\ (exits' > exits \/ errors' > errors)
              => construction' = "rejected"
       /\ construction = "rejected" => construction' = "rejected"]_vars

\* C37: a registry entry has waiters only while it is requested and not
\* complete.
C37_WaitersOnlyWhileAsked ==
    \A i \in 1..Len(schema) :
        schema[i].listeners # <<>> => schema[i].requested /\ ~schema[i].complete

\* C37 case: two calls of sleep wait on its entry, whose help query was sent
\* and is not answered
C37_Witness ==
    /\ GetItem(schema, N_sleep).listeners = << <<1, 0>>, <<2, 0>> >>
    /\ GetItem(schema, N_sleep).requested
    /\ ~GetItem(schema, N_sleep).complete
    /\ HelpLines(N_sleep) # {}

\* C38: no step changes the parameter names or types of an action whose
\* descriptor is complete and stays in the registry.
C38_ParametersFixed ==
    [][\A i \in 1..Len(schema) :
          schema[i].kind = "action" /\ schema[i].complete /\ HasItem(schema', schema[i].name) =>
              /\ GetItem(schema', schema[i].name).param_names = schema[i].param_names
              /\ GetItem(schema', schema[i].name).param_types = schema[i].param_types]_vars

\* the place in what was written of the line that names the action
LineOf(action) == CHOOSE i \in 1..Len(written) : written[i].name = action

\* C39: of two calls of different actions that both wrote their line on a
\* transport that has not closed, the one invoked first wrote first.
C39_LinesInCallOrder ==
    \A c, d \in Calls :
        /\ exits = 0 /\ phase = "open"
        /\ c < d /\ calls[c].wrote /\ calls[d].wrote
        /\ calls[c].action # calls[d].action
        => LineOf(calls[c].action) < LineOf(calls[d].action)

\* C40: a 'data' step in which a handler threw has emitted a record for
\* every complete line of its chunk and has kept the fragment after the
\* last line feed, here the empty one, as carry-over.
C40_ThrowKeepsRest ==
    [][errors' > errors /\ inflight' # inflight =>
          /\ Len(emitted') = Len(emitted) + (Len(inflight) - Len(inflight'))
          /\ buffer' = <<>>]_vars

====
